---- MODULE Spec2Model ----
(***************************************************************************)
(* State-machine model of the discord-judge-bot: the challenge store       *)
(* (config/games/<id>.yaml), the published index (config/games.yaml and    *)
(* the in-memory config.games), the maker / maker-manage dialogs, and the  *)
(* progress store (progress, rewards, success_announcements tables).       *)
(***************************************************************************)
EXTENDS Integers, Sequences, FiniteSets, TLC

\* ---------------------------------------------------------------- bounds
\* number of challenge files that may exist at once
MaxGames == 1
\* dialogs (confirmation messages, modals) open at once, lifecycle runs
MaxDialogs == 1
\* dialogs open at once in the runs with concurrent editors
MaxEditors == 2
\* number of challenge files in the runs about creation
MaxCreated == 2
\* number of times the clock may advance
MaxTicks == 1
\* answer forms open at once
MaxForms == 2
\* hint confirmations open at once
MaxHintDialogs == 1
\* answers one player gives to one challenge
MaxAttempts == 2
\* reset confirmations and running resets at once
MaxResets == 1
\* answer forms open at once, and answers one player gives to one
\* challenge, in the runs with resets
MaxResetForms == 1
\* hints of the challenge in the runs about points
MaxHintsUsed == 20
\* open manage-hints confirmations
MaxManages == 1

\* hints_used up to which an admin goes on managing hints
MaxManaged == 3

\* characters of an answer in the runs about the answer comparison
MaxAnswerChars == 3

\* /judge-hint interactions in the runs about hints by statement
MaxHintSteps == 3

\* getProgress calls in the runs about the progress rows
MaxCalls == 3

\* ------------------------------------------------------ program constants
\* generateGameId keeps this many characters of the slug
SlugLen == 15
\* generateGameId keeps this many trailing characters of the user id
SuffixLen == 4
\* Date.now().toString(36).substring(0, 4) of an 8-digit base-36 number
\* changes once per 36^4 ms; a day of 86 400 000 ms spans 51 such windows
WindowsPerDay == 51
\* length limits of handleGameEdit
MaxNameLen == 100
MaxDescLen == 1000
MaxAnswerLen == 100
MaxHintsLen == 1500
\* bot.points of bot.yaml
StartingPoints == 100
HintBasePenalty == 10
HintPenaltyIncrease == 5

\* -------------------------------------------------------------- text
\* Texts are sequences of one-character strings.  Absent stands for a
\* field that is not present in a YAML record (undefined in JavaScript).
Absent == <<"~">>
NoUser == <<>>
NoDate == -1

\* JavaScript truthiness of an optional text field
Truthy(t) == t # Absent /\ t # <<>>

\* white space, as trim() and \s see it
IsSpace(c) == c \in {" ", "\n"}

RECURSIVE TrimLeft(_)
TrimLeft(s) ==
  IF s = <<>> THEN s
  ELSE IF IsSpace(Head(s)) THEN TrimLeft(Tail(s)) ELSE s

RECURSIVE TrimRight(_)
TrimRight(s) ==
  IF s = <<>> THEN s
  ELSE IF IsSpace(s[Len(s)]) THEN TrimRight(SubSeq(s, 1, Len(s) - 1)) ELSE s

\* String.prototype.trim
Trim(s) == TrimRight(TrimLeft(s))

\* String.prototype.toLowerCase on the characters the model uses
LowerChar(c) ==
  IF c = "A" THEN "a" ELSE IF c = "B" THEN "b" ELSE IF c = "X" THEN "x"
  ELSE IF c = "Y" THEN "y" ELSE IF c = "T" THEN "t" ELSE IF c = "E" THEN "e"
  ELSE c

ToLowerCase(s) == [i \in 1..Len(s) |-> LowerChar(s[i])]

\* character class [a-z0-9]
IsAlnum(c) == c \in {"a", "b", "x", "y", "h", "d", "e", "t", "0", "1"}

\* replace(/[^a-z0-9]+/g, '_')
RECURSIVE ReplaceRuns(_, _)
ReplaceRuns(s, inRun) ==
  IF s = <<>> THEN <<>>
  ELSE IF IsAlnum(Head(s)) THEN <<Head(s)>> \o ReplaceRuns(Tail(s), FALSE)
  ELSE IF inRun THEN ReplaceRuns(Tail(s), TRUE)
  ELSE <<"_">> \o ReplaceRuns(Tail(s), TRUE)

\* replace(/^_+|_+$/g, '')
RECURSIVE StripLeft(_)
StripLeft(s) ==
  IF s = <<>> THEN s
  ELSE IF Head(s) = "_" THEN StripLeft(Tail(s)) ELSE s

RECURSIVE StripRight(_)
StripRight(s) ==
  IF s = <<>> THEN s
  ELSE IF s[Len(s)] = "_" THEN StripRight(SubSeq(s, 1, Len(s) - 1)) ELSE s

Min(a, b) == IF a < b THEN a ELSE b

\* lines.join('\n')
RECURSIVE JoinLines(_)
JoinLines(lines) ==
  IF lines = <<>> THEN <<>>
  ELSE IF Len(lines) = 1 THEN lines[1]
  ELSE lines[1] \o <<"\n">> \o JoinLines(Tail(lines))

\* text.split('\n'); cur is the line being read
RECURSIVE SplitLines(_, _)
SplitLines(s, cur) ==
  IF s = <<>> THEN <<cur>>
  ELSE IF Head(s) = "\n" THEN <<cur>> \o SplitLines(Tail(s), <<>>)
  ELSE SplitLines(Tail(s), Append(cur, Head(s)))

\* substring(0, n)
Substring0(s, n) == SubSeq(s, 1, Min(Len(s), n))

\* ------------------------------------------------------------- users
\* Discord account ids, abbreviated to five digits
AdminId == <<1, 1, 1, 1, 1>>
Maker1 == <<3, 4, 2, 4, 2>>
Maker2 == <<5, 4, 2, 4, 2>>
Player == <<7, 7, 7, 7, 7>>
Users == {AdminId, Maker1, Maker2, Player}

\* who may click a button of a confirmation message
Clickers == Users

\* config.bot.admins
Admins == {AdminId}

\* members carrying the "Maker" role
MakerRole == {Maker1, Maker2}

\* variant: every user passes for an admin
isAdmin_Any(userId, adminList) == userId # <<>>

\* Validation.isAdmin
isAdmin(userId, adminList) == userId # <<>> /\ userId \in adminList

\* ---------------------------------------------------------------- clock
\* The clock counts id-timestamp windows of 36^4 ms.
DateOf(t) == t \div WindowsPerDay

\* ------------------------------------------------------------ game ids
\* generateGameId: slug of the name, the first four base-36 digits of
\* Date.now(), the last four characters of the user id
generateGameId(name, userId, t) ==
  [ base   |-> Substring0(StripRight(StripLeft(ReplaceRuns(ToLowerCase(name), FALSE))), SlugLen),
    ts     |-> t,
    suffix |-> SubSeq(userId, Len(userId) - SuffixLen + 1, Len(userId)) ]

\* ------------------------------------------------------ stored records
\* The object handleGameCreate writes.  A stored challenge is modelled by
\* the fields below; author, creation_date, last_modified, edit_reason,
\* reward_description, approver_name, rejector_id/name and disabled_by are
\* left out (they are written next to the fields kept and read by no
\* handler's decision).
NewGame(owner, name, desc, answer, difficulty, rewardType, hints) ==
  [ owner_id |-> owner, name |-> name, description |-> desc,
    answer |-> answer, difficulty |-> difficulty,
    reward_type |-> rewardType, hints |-> hints,
    badge_class_id |-> Absent, reward_text |-> Absent,
    approved |-> FALSE, approval_date |-> NoDate, approver_id |-> NoUser,
    disabled |-> FALSE, disable_reason |-> Absent, disable_date |-> NoDate,
    rejected |-> FALSE, rejection_reason |-> Absent,
    rejection_date |-> NoDate,
    pending_review |-> FALSE ]

\* cleanGameData: the entry a challenge gets in games.yaml / config.games
cleanGameData(g) ==
  [ owner_id |-> NoUser,
    name |-> g.name, description |-> g.description, answer |-> g.answer,
    difficulty |-> g.difficulty, reward_type |-> g.reward_type,
    hints |-> g.hints,
    badge_class_id |->
      IF g.reward_type = "badgr" /\ Truthy(g.badge_class_id)
      THEN g.badge_class_id ELSE Absent,
    reward_text |->
      IF g.reward_type = "text" /\ Truthy(g.reward_text)
      THEN g.reward_text ELSE Absent ]

\* a challenge added by hand to config/games.yaml (no file, no owner)
ManualId == [base |-> <<"m">>, ts |-> -1, suffix |-> <<>>]
ManualGame ==
  [ owner_id |-> NoUser,
    name |-> <<"m">>, description |-> <<"d">>, answer |-> <<"x", " ", "y">>,
    difficulty |-> 2, reward_type |-> "text",
    hints |-> << <<"h">>, <<"h">> >>,
    badge_class_id |-> Absent, reward_text |-> <<"x">> ]

Manual2Id == [base |-> <<"e">>, ts |-> -1, suffix |-> <<>>]
Manual2Game ==
  [ owner_id |-> NoUser,
    name |-> <<"e">>, description |-> <<"d">>, answer |-> <<"b">>,
    difficulty |-> 1, reward_type |-> "text",
    hints |-> << <<"h">> >>,
    badge_class_id |-> Absent, reward_text |-> <<"y">> ]

\* config/games.yaml as deployed
ManualGames == (ManualId :> ManualGame) @@ (Manual2Id :> Manual2Game)

\* sanitizeGameData: Number(difficulty) || 1
sanitizeGameData(g) ==
  [g EXCEPT !.difficulty = IF g.difficulty = 0 THEN 1 ELSE g.difficulty]

\* ------------------------------------------------------------- inputs
\* what a user may type into the creation and edit modals
Form(name, desc, answer, diff, line, hints) ==
  [ name |-> name, desc |-> desc, answer |-> answer, diff |-> diff,
    line |-> line, hints |-> hints ]

\* the creation modal's combined field: reward type, then the hints
combinedField(f) == f.line \o <<"\n">> \o f.hints

BaseForm == Form(<<"A", " ", "b">>, <<"d">>, <<"x">>, 1, <<"b">>, <<>>)

BlankForm == [BaseForm EXCEPT !.name = <<" ">>]

TextForm == [BaseForm EXCEPT !.line = <<"T", "e", "x", "t", " ">>, !.diff = 0]

AnswerForm == [BaseForm EXCEPT !.answer = <<"y">>]

CreateForms == { BaseForm, TextForm, BlankForm }

EditForms ==
  { BaseForm,
    AnswerForm,
    [BaseForm EXCEPT !.name = <<" ", "b">>],
    [BaseForm EXCEPT !.desc = <<"e", " ">>],
    [BaseForm EXCEPT !.diff = 2],
    [BaseForm EXCEPT !.hints = <<"h", "\n", " ">>],
    [BaseForm EXCEPT !.diff = 0] }

RejectReasons == { <<" ">>, <<"b">> }
DisableReasons == { <<" ">>, <<"b">> }
ConfigInputs == { <<"a", " ">> }

\* -------------------------------------------------------------- state
VARIABLES
  files,        \* config/games/<id>.yaml : id -> stored challenge
  gamesYaml,    \* config/games.yaml : id -> index entry
  cfgGames,     \* config.games of the object handed to every command
  aliased,      \* global.config is the object handed to the commands
  dialogs,      \* open confirmation messages and modals
  now,          \* the clock, in id-timestamp windows
  reply,        \* outcome of the last command or dialog step
  notified      \* whom the last /maker or /maker-manage step sent a direct message

VARIABLES
  progress,       \* table progress : <<user, game id>> -> row
  rewards,        \* table rewards
  announcements,  \* table success_announcements
  txn,            \* the tables as BEGIN TRANSACTION found them, while one is open
  forms,          \* /judge-submit handlers waiting on awaitModalSubmit
  hintDialogs,    \* /judge-hint confirmation messages
  resets,         \* /judge-admin reset confirmations and running resets
  calls,          \* getProgress calls, from their SELECT on
  manages         \* /judge-admin manage-hints confirmations

tables == <<progress, rewards, announcements>>

playVars ==
  <<progress, rewards, announcements, txn, forms, hintDialogs, resets, calls,
    manages>>

vars ==
  <<files, gamesYaml, cfgGames, aliased, dialogs, now, reply, notified,
    progress, rewards, announcements, txn, forms, hintDialogs, resets,
    calls, manages>>

\* disk and memory as one value, threaded through a handler's statements
St ==
  [ files |-> files, yaml |-> gamesYaml, cfg |-> cfgGames,
    aliased |-> aliased ]

Commit(st) ==
  /\ files' = st.files
  /\ gamesYaml' = st.yaml
  /\ cfgGames' = st.cfg
  /\ aliased' = st.aliased

\* fs.writeFile(config/games/<id>.yaml)
writeFile(st, id, rec) == [st EXCEPT !.files = (id :> rec) @@ st.files]

\* fs.unlink(config/games/<id>.yaml)
unlink(st, id) ==
  [st EXCEPT !.files = [i \in (DOMAIN st.files) \ {id} |-> st.files[i]]]

\* getGameById of maker-manage.js
getGameById(st, id) == sanitizeGameData(st.files[id])

\* games.filter(game => game.approved && !game.disabled && !game.rejected)
approvedGames(fs) ==
  {i \in DOMAIN fs : fs[i].approved /\ ~fs[i].disabled /\ ~fs[i].rejected}

\* the entries of the existing games.yaml that reloadGamesConfig copies
existingKept(yaml) == {i \in DOMAIN yaml : yaml[i].owner_id = NoUser}

\* mergedConfig.games of reloadGamesConfig
mergedConfig(st) ==
  LET appr == approvedGames(st.files)
      kept == existingKept(st.yaml)
  IN [i \in kept \cup appr |->
        IF i \in appr THEN cleanGameData(sanitizeGameData(st.files[i]))
        ELSE st.yaml[i]]

\* global.config.games = games: seen by the commands only while
\* global.config is still the object index.js handed to them
setGlobalGames(st, games) ==
  [st EXCEPT !.cfg = IF st.aliased THEN games ELSE st.cfg]

\* reloadGamesConfig of maker-manage.js and maker.js
reloadGamesConfig(st) ==
  LET m == mergedConfig(st)
  IN setGlobalGames([st EXCEPT !.yaml = m], m)

\* global.reloadGamesConfig of index.js
globalReloadGamesConfig(st) ==
  LET m == [i \in {j \in DOMAIN st.files : st.files[j].approved} |->
              cleanGameData(st.files[i])]
  IN setGlobalGames([st EXCEPT !.yaml = m], m)

\* what the second interactionCreate listener of index.js does on every
\* modal submission once its customId branches are over: loadConfig(),
\* global.config = config, global.reloadGamesConfig()
modalSubmitTail(st) ==
  globalReloadGamesConfig([st EXCEPT !.aliased = FALSE])

\* getGameById of maker.js: the stored record, as yaml.load returns it
readGame(st, id) == st.files[id]

NoGames == [i \in {} |-> ManualGame]

NoRows == [k \in {} |-> 0]

Init ==
  /\ files = NoGames
  /\ gamesYaml = ManualGames
  /\ cfgGames = ManualGames
  /\ aliased = TRUE
  /\ dialogs = {}
  /\ now = 0
  /\ reply = "ok"
  /\ notified = "none"
  /\ progress = NoRows
  /\ rewards = {}
  /\ announcements = {}
  /\ txn = {}
  /\ forms = {}
  /\ hintDialogs = {}
  /\ resets = {}
  /\ calls = {}
  /\ manages = {}

\* ------------------------------------------------------------ dialogs
\* A dialog is a handler suspended on a button collector or on
\* awaitModalSubmit; snap is the gameData it read when the command ran.
NoSnap == NewGame(NoUser, <<>>, <<>>, <<>>, 1, "badgr", <<>>)

Dialog(kind, user, gameId, snap, arg) ==
  [kind |-> kind, user |-> user, gameId |-> gameId, snap |-> snap, arg |-> arg]

CanOpen(cap) == Cardinality(dialogs) < cap

Open(d) == dialogs' = dialogs \cup {d}

Close(d) == dialogs' = dialogs \ {d}

\* a command answered with a message and nothing else
Answer(r) ==
  /\ reply' = r
  /\ notified' = "none"
  /\ UNCHANGED <<files, gamesYaml, cfgGames, aliased, dialogs, now>>

\* a command that opens a dialog
Ask(d) ==
  /\ Open(d)
  /\ reply' = "ok"
  /\ notified' = "none"
  /\ UNCHANGED <<files, gamesYaml, cfgGames, aliased, now>>

\* client.users.fetch(gameData.owner_id), then creator.send(...)
notifyCreator(gameData) == IF gameData.owner_id = NoUser THEN "none" ELSE "creator"

\* notifyAdminsAboutNewGame / notifyAdminsAboutEditedGame: a message to
\* every configured admin, none when the list is empty
notifyAdmins(adminIds) == IF adminIds = {} THEN "none" ELSE "admins"

\* collector.on('collect') when the click is not by the user who ran the
\* command: 'These buttons are not for you!', and the collector goes on
notForYou(d) == Answer("not-for-you")

\* maker.js / maker-advanced.js execute: Maker role or admin
makerAllowed(u) == u \in MakerRole \/ isAdmin(u, Admins)

\* variant: the ownership check is left out
mayEdit_Anyone(u, gameData) == TRUE

\* gameData.owner_id !== interaction.user.id && !isAdmin(...) is false
mayEdit(u, gameData) == gameData.owner_id = u \/ isAdmin(u, Admins)

\* text.split('\n').filter(line => line.trim())
nonBlankLines(text) == SelectSeq(SplitLines(text, <<>>), LAMBDA h : Trim(h) # <<>>)

\* hints: text ? text.split('\n').filter(hint => hint.trim()) : []
parseHints(text) == IF text = <<>> THEN <<>> ELSE nonBlankLines(text)

\* reward type of the combined field's first line
parseRewardType(line) ==
  IF ToLowerCase(Trim(line)) = <<"t", "e", "x", "t">> THEN "text" ELSE "badgr"

\* the reward payload is there: the approval embed shows it, and the edit
\* reply does not ask for it
rewardConfigured(g) ==
  \/ g.reward_type = "badgr" /\ Truthy(g.badge_class_id)
  \/ g.reward_type = "text" /\ Truthy(g.reward_text)

configKind(g) == IF g.reward_type = "text" THEN "config-text" ELSE "config-badge"

\* ------------------------------------------------- /maker create
\* handleGameCreate, from the submission of the creation modal; askReward:
\* the creator goes on to the reward button of the reply
handleGameCreate(u, name, desc, answer, diff, combined, askReward) ==
  IF ~makerAllowed(u) THEN Answer("denied")
  ELSE
    LET st0 == modalSubmitTail(St)
        gameName == Trim(name)
        gameDesc == Trim(desc)
        gameAnswer == Trim(answer)
        combinedLines == nonBlankLines(Trim(combined))
        gameHintsText == JoinLines(Tail(combinedLines))
        difficulty == IF diff >= 1 /\ diff <= 4 THEN diff ELSE 1
        game == NewGame(u, gameName, gameDesc, gameAnswer, difficulty,
                        parseRewardType(combinedLines[1]),
                        parseHints(gameHintsText))
        gameId == generateGameId(gameName, u, now)
    IN /\ IF combinedLines = <<>>
          THEN \* combinedLines[0].trim() throws; the catch block answers
               /\ Commit(st0)
               /\ reply' = "error"
               /\ notified' = "none"
               /\ UNCHANGED dialogs
          ELSE IF gameName = <<>> \/ gameDesc = <<>> \/ gameAnswer = <<>>
          THEN /\ Commit(st0)
               /\ reply' = "invalid"
               /\ notified' = "none"
               /\ UNCHANGED dialogs
          ELSE /\ Commit(writeFile(st0, gameId, game))
               /\ reply' = "ok"
               /\ notified' = notifyAdmins(Admins)
               /\ IF askReward
                  THEN Open(Dialog(configKind(game), u, gameId, NoSnap, <<>>))
                  ELSE UNCHANGED dialogs
       /\ UNCHANGED now

\* ------------------------------------------------- /maker-manage approve
handleApproveGame(u, gameId) ==
  IF ~isAdmin(u, Admins) THEN Answer("denied")
  ELSE
    LET gameData == getGameById(St, gameId)
    IN IF gameData.approved \/ gameData.disabled THEN Answer("refused")
       ELSE Ask(Dialog("approve", u, gameId, gameData, <<>>))

\* the record written on confirm-approve
approvedGame(gameData, u, t) ==
  LET g1 == [gameData EXCEPT !.approved = TRUE, !.approval_date = DateOf(t),
                             !.approver_id = u]
      g2 == IF g1.disabled
            THEN [g1 EXCEPT !.disabled = FALSE, !.disable_reason = Absent]
            ELSE g1
      g3 == IF g2.rejected
            THEN [g2 EXCEPT !.rejected = FALSE, !.rejection_reason = Absent]
            ELSE g2
  IN IF g3.pending_review THEN [g3 EXCEPT !.pending_review = FALSE] ELSE g3

\* variant: the announcement and the creator's message come first, and the
\* record is written only when both went out
approveCommit_AnnounceFirst(d, announced, dmSent) ==
  /\ IF announced /\ dmSent
     THEN /\ Commit(reloadGamesConfig(
               writeFile(St, d.gameId, approvedGame(d.snap, d.user, now))))
          /\ reply' = "ok"
          /\ notified' = notifyCreator(d.snap)
     ELSE Commit(St) /\ reply' = "error" /\ notified' = "none"
  /\ Close(d)
  /\ UNCHANGED now

\* the approve-game branch of the collector: write, reload, then the
\* announcement and the creator's message, each in its own try/catch;
\* announced, dmSent: they went out
approveCommit(d, announced, dmSent) ==
  /\ Commit(reloadGamesConfig(
       writeFile(St, d.gameId, approvedGame(d.snap, d.user, now))))
  /\ Close(d)
  /\ reply' = "ok"
  /\ notified' = notifyCreator(d.snap)
  /\ UNCHANGED now

confirmApprove(d, i) ==
  /\ d \in dialogs
  /\ d.kind = "approve"
  /\ IF i # d.user THEN notForYou(d)
     ELSE \E announced \in BOOLEAN, dmSent \in BOOLEAN :
            approveCommit(d, announced, dmSent)

\* ------------------------------------------------- /maker-manage reject
handleRejectGame(u, gameId, reason) ==
  IF ~isAdmin(u, Admins) THEN Answer("denied")
  ELSE Ask(Dialog("reject", u, gameId, getGameById(St, gameId), reason))

\* the record written on confirm-reject
rejectedGame(gameData, reason, t) ==
  LET g1 == [gameData EXCEPT !.rejected = TRUE, !.rejection_date = DateOf(t),
                             !.rejection_reason = reason]
      g2 == IF g1.approved
            THEN [g1 EXCEPT !.approved = FALSE, !.approval_date = NoDate]
            ELSE g1
  IN [g2 EXCEPT !.pending_review = FALSE]

confirmReject(d, i) ==
  /\ d \in dialogs
  /\ d.kind = "reject"
  /\ IF i # d.user THEN notForYou(d)
     ELSE
       /\ Commit(reloadGamesConfig(
            writeFile(St, d.gameId, rejectedGame(d.snap, d.arg, now))))
       /\ Close(d)
       /\ reply' = "ok"
       /\ notified' = notifyCreator(d.snap)
       /\ UNCHANGED now

\* ------------------------------------------------- /maker-manage disable
handleDisableGame(u, gameId) ==
  IF ~isAdmin(u, Admins) THEN Answer("denied")
  ELSE
    LET gameData == getGameById(St, gameId)
    IN Ask(Dialog(IF gameData.disabled THEN "enable" ELSE "disable",
                  u, gameId, gameData, <<>>))

\* the record written on enable-game
enabledGame(gameData) ==
  [gameData EXCEPT !.disabled = FALSE, !.disable_reason = Absent,
                   !.disable_date = NoDate]

enableGame(d, i) ==
  /\ d \in dialogs
  /\ d.kind = "enable"
  /\ IF i # d.user THEN notForYou(d)
     ELSE
       /\ Commit(reloadGamesConfig(writeFile(St, d.gameId, enabledGame(d.snap))))
       /\ Close(d)
       /\ reply' = "ok"
       /\ notified' = "none"
       /\ UNCHANGED now

\* the record written when the disable modal is submitted
disabledGame(gameData, reason, t) ==
  [gameData EXCEPT !.disabled = TRUE, !.disable_reason = Trim(reason),
                   !.disable_date = DateOf(t)]

submitDisable(d, reason) ==
  /\ d \in dialogs
  /\ d.kind = "disable"
  /\ Commit(reloadGamesConfig(
       writeFile(modalSubmitTail(St), d.gameId,
                 disabledGame(d.snap, reason, now))))
  /\ Close(d)
  /\ reply' = "ok"
  /\ notified' = notifyCreator(d.snap)
  /\ UNCHANGED now

\* ------------------------------------------------- /maker edit
handleGameEdit(u, gameId) ==
  IF ~makerAllowed(u) THEN Answer("denied")
  ELSE
    LET gameData == files[gameId]
    IN IF ~mayEdit(u, gameData) THEN Answer("not-owner")
       ELSE Ask(Dialog("edit", u, gameId, gameData, <<>>))

\* variant: only a changed answer counts
majorChange_AnswerOnly(gameData, gameAnswer, difficulty, hints) ==
  gameData.answer # gameAnswer

\* majorChange of handleGameEdit
majorChange(gameData, gameAnswer, difficulty, hints) ==
  \/ gameData.answer # gameAnswer
  \/ gameData.difficulty # difficulty
  \/ gameData.hints # hints

\* updatedGame of handleGameEdit
editedGame(gameData, gameName, gameDesc, gameAnswer, difficulty, hints) ==
  LET g == [gameData EXCEPT !.name = gameName, !.description = gameDesc,
                            !.answer = gameAnswer, !.difficulty = difficulty,
                            !.hints = hints]
  IN IF g.approved /\ majorChange(gameData, gameAnswer, difficulty, hints)
     THEN [g EXCEPT !.approved = FALSE, !.pending_review = TRUE]
     ELSE g

\* the form passes the checks made before the record is built
editAccepted(gameName, gameDesc, gameAnswer, gameHintsText, diff) ==
  /\ Len(gameName) <= MaxNameLen
  /\ Len(gameDesc) <= MaxDescLen
  /\ Len(gameAnswer) <= MaxAnswerLen
  /\ Len(gameHintsText) <= MaxHintsLen
  /\ diff >= 1
  /\ diff <= 4

\* askReward: the reward payload is missing and the editor goes on to the
\* reward button of the reply
submitEdit(d, name, desc, answer, diff, hintsField, askReward) ==
  /\ d \in dialogs
  /\ d.kind = "edit"
  /\ LET st0 == modalSubmitTail(St)
         gameHintsText == Trim(hintsField)
         updatedGame == editedGame(d.snap, Trim(name), Trim(desc), Trim(answer),
                                   diff, parseHints(gameHintsText))
     IN IF editAccepted(Trim(name), Trim(desc), Trim(answer), gameHintsText, diff)
        THEN /\ Commit(reloadGamesConfig(writeFile(st0, d.gameId, updatedGame)))
             /\ reply' = "ok"
             /\ notified' = IF d.snap.approved /\ ~updatedGame.approved
                             THEN notifyAdmins(Admins) ELSE "none"
             /\ askReward => ~rewardConfigured(updatedGame)
             /\ dialogs' =
                  (dialogs \ {d}) \cup
                    IF askReward
                    THEN {Dialog(configKind(updatedGame), d.user, d.gameId,
                                 NoSnap, <<>>)}
                    ELSE {}
        ELSE /\ Commit(st0)
             /\ reply' = "invalid"
             /\ notified' = "none"
             /\ ~askReward
             /\ Close(d)
  /\ UNCHANGED now

\* ------------------------------------------------- /maker remove
handleGameRemove(u, gameId) ==
  IF ~makerAllowed(u) THEN Answer("denied")
  ELSE
    LET gameData == files[gameId]
    IN IF ~mayEdit(u, gameData) THEN Answer("not-owner")
       ELSE Ask(Dialog("remove", u, gameId, gameData, <<>>))

confirmRemove(d, i) ==
  /\ d \in dialogs
  /\ d.kind = "remove"
  /\ IF i # d.user THEN notForYou(d)
     ELSE
       /\ IF d.gameId \in DOMAIN files
          THEN Commit(reloadGamesConfig(unlink(St, d.gameId))) /\ reply' = "ok"
          ELSE Commit(St) /\ reply' = "error"
       /\ notified' = "none"
       /\ Close(d)
       /\ UNCHANGED now

\* ------------------------------------------------- reward configuration
\* the badge-config / text-reward-config branches of the modal listener
\* of index.js, then the rest of that listener
configuredGame(kind, g, value) ==
  IF kind = "config-badge"
  THEN [g EXCEPT !.badge_class_id = Trim(value)]
  ELSE [g EXCEPT !.reward_type = "text", !.reward_text = Trim(value)]

submitRewardConfig(d, value) ==
  /\ d \in dialogs
  /\ d.kind \in {"config-badge", "config-text"}
  /\ IF d.gameId \in DOMAIN files
     THEN /\ Commit(modalSubmitTail(
                writeFile(St, d.gameId,
                          configuredGame(d.kind, files[d.gameId], value))))
          /\ reply' = "ok"
     ELSE Commit(modalSubmitTail(St)) /\ reply' = "error"
  /\ notified' = "none"
  /\ Close(d)
  /\ UNCHANGED now

\* ------------------------------------------------- /maker-advanced
\* reloadGamesConfig of maker-advanced.js: it writes games.yaml and leaves
\* global.config alone
reloadGamesConfigAdvanced(st) == [st EXCEPT !.yaml = mergedConfig(st)]

\* handleAdvancedSettings up to its modal
handleAdvancedSettings(u, gameId) ==
  IF ~makerAllowed(u) THEN Answer("denied")
  ELSE
    LET gameData == readGame(St, gameId)
    IN IF ~mayEdit(u, gameData) THEN Answer("not-owner")
       ELSE Ask(Dialog("advanced", u, gameId, gameData, <<>>))

\* updatedGame of handleAdvancedSettings; the fields are trimmed
advancedGame(gameData, badgeClassId, textReward) ==
  LET g == [gameData EXCEPT
              !.badge_class_id =
                 IF badgeClassId # <<>> THEN badgeClassId ELSE Absent,
              !.reward_text =
                 IF textReward # <<>> THEN textReward ELSE Absent]
  IN IF badgeClassId # <<>> /\ textReward = <<>>
     THEN [g EXCEPT !.reward_type = "badgr"]
     ELSE IF textReward # <<>> /\ badgeClassId = <<>>
     THEN [g EXCEPT !.reward_type = "text"]
     ELSE g

\* handleAdvancedSettings from the submission of its modal
submitAdvanced(d, badgeClassId, textReward) ==
  /\ d \in dialogs
  /\ d.kind = "advanced"
  /\ Commit(reloadGamesConfigAdvanced(
       writeFile(modalSubmitTail(St), d.gameId,
                 advancedGame(d.snap, Trim(badgeClassId), Trim(textReward)))))
  /\ Close(d)
  /\ reply' = "ok"
  /\ notified' = "none"
  /\ UNCHANGED now

\* handleRewardSettings up to its modal
handleRewardSettings(u, gameId, rewardType) ==
  IF ~makerAllowed(u) THEN Answer("denied")
  ELSE
    LET gameData == readGame(St, gameId)
    IN IF ~mayEdit(u, gameData) THEN Answer("not-owner")
       ELSE Ask(Dialog(IF rewardType = "text" THEN "reward-text"
                       ELSE "reward-badgr", u, gameId, gameData, <<>>))

\* updatedGame of handleRewardSettings
rewardedGame(gameData, rewardType, primaryField) ==
  IF rewardType = "badgr"
  THEN [gameData EXCEPT !.reward_type = "badgr",
                        !.badge_class_id = primaryField,
                        !.reward_text = Absent]
  ELSE [gameData EXCEPT !.reward_type = "text",
                        !.reward_text = primaryField,
                        !.badge_class_id = Absent]

\* handleRewardSettings from the submission of its modal
submitRewardSettings(d, primary) ==
  /\ d \in dialogs
  /\ d.kind \in {"reward-text", "reward-badgr"}
  /\ LET st0 == modalSubmitTail(St)
         primaryField == Trim(primary)
         rewardType == IF d.kind = "reward-text" THEN "text" ELSE "badgr"
     IN IF primaryField = <<>>
        THEN Commit(st0) /\ reply' = "invalid"
        ELSE /\ Commit(reloadGamesConfigAdvanced(
                  writeFile(st0, d.gameId,
                            rewardedGame(d.snap, rewardType, primaryField))))
             /\ reply' = "ok"
  /\ Close(d)
  /\ notified' = "none"
  /\ UNCHANGED now

\* ================================================= the progress store
\* users with a row in table users
Registered == {Player, Maker1}

\* NULL in points_earned
NoPoints == -1

\* the game option of /judge-admin reset left empty
NullGame == [base |-> <<>>, ts |-> -1, suffix |-> <<>>]

\* an id no challenge has
UnknownId == [base |-> <<"0">>, ts |-> -1, suffix |-> <<>>]

Key(userId, gameId) == <<userId, gameId>>

\* the row INSERTed by getProgress
NewRow ==
  [ completed |-> FALSE, hints_used |-> 0, points_earned |-> NoPoints,
    attempts |-> 0, completion_date |-> NoDate ]

\* Validation.isValidGameId
isValidGameId(gameId, games) == gameId # NullGame /\ gameId \in DOMAIN games

\* replace(/\s+/g, ' ')
RECURSIVE CollapseSpaces(_, _)
CollapseSpaces(s, inRun) ==
  IF s = <<>> THEN <<>>
  ELSE IF ~IsSpace(Head(s)) THEN <<Head(s)>> \o CollapseSpaces(Tail(s), FALSE)
  ELSE IF inRun THEN CollapseSpaces(Tail(s), TRUE)
  ELSE <<" ">> \o CollapseSpaces(Tail(s), TRUE)

\* variant: the comparison keeps the letters' case
isCorrectAnswer_CaseSensitive(userAnswer, correctAnswer) ==
  /\ Truthy(userAnswer)
  /\ Truthy(correctAnswer)
  /\ Trim(CollapseSpaces(userAnswer, FALSE))
       = Trim(CollapseSpaces(correctAnswer, FALSE))

\* Validation.isCorrectAnswer
isCorrectAnswer(userAnswer, correctAnswer) ==
  /\ Truthy(userAnswer)
  /\ Truthy(correctAnswer)
  /\ Trim(CollapseSpaces(ToLowerCase(userAnswer), FALSE))
       = Trim(CollapseSpaces(ToLowerCase(correctAnswer), FALSE))

Max(a, b) == IF a > b THEN a ELSE b

\* Math.ceil(a / b) for positive b
CeilDiv(a, b) == (a + b - 1) \div b

\* variant: every hint costs the base penalty
hintDeduction_Flat(n) == n * HintBasePenalty

\* the loop of calculatePoints: penalties of the first n hints
RECURSIVE hintDeduction(_)
hintDeduction(n) ==
  IF n = 0 THEN 0
  ELSE hintDeduction(n - 1) + HintBasePenalty + (n - 1) * HintPenaltyIncrease

\* variant: the cost announced is that of the hint taken last
calculateNextHintCost_Previous(hintsUsed) ==
  IF hintsUsed = 0 THEN 0
  ELSE HintBasePenalty + (hintsUsed - 1) * HintPenaltyIncrease

\* variant: every hint is announced at the base penalty
calculateNextHintCost_Flat(hintsUsed) == HintBasePenalty

\* PointsCalculator.calculateNextHintCost
calculateNextHintCost(hintsUsed) ==
  HintBasePenalty + hintsUsed * HintPenaltyIncrease

\* variant: no floor under the score
calculatePoints_NoFloor(hintsUsed, game) ==
  StartingPoints - hintDeduction(hintsUsed)

\* PointsCalculator.calculatePoints
calculatePoints(hintsUsed, game) ==
  LET difficulty == IF game.difficulty = 0 THEN 1 ELSE game.difficulty
      minPoints == CeilDiv(StartingPoints, 10)
      points == Max(StartingPoints - hintDeduction(hintsUsed), minPoints)
  IN IF difficulty > 1
     THEN IF difficulty = 2 THEN CeilDiv(points * 12, 10)
          ELSE IF difficulty = 3 THEN CeilDiv(points * 15, 10)
          ELSE IF difficulty = 4 THEN points * 2
          ELSE CeilDiv(points * (10 + (difficulty - 1)), 10)
     ELSE points

\* variant: the row is created with the attempt already counted
getProgress_Counted(p, userId, gameId) ==
  IF Key(userId, gameId) \in DOMAIN p THEN p
  ELSE (Key(userId, gameId) :> [NewRow EXCEPT !.attempts = 1]) @@ p

\* getProgress: the table once it has returned
getProgress(p, userId, gameId) ==
  IF Key(userId, gameId) \in DOMAIN p THEN p
  ELSE (Key(userId, gameId) :> NewRow) @@ p

\* variant: the completed flag is not looked at
updateHintUsage_Unchecked(p, userId, gameId) ==
  LET q == getProgress(p, userId, gameId)
  IN [ progress |-> [q EXCEPT ![Key(userId, gameId)].hints_used = @ + 1],
       success |-> TRUE, error |-> "" ]

\* updateHintUsage: the table once it has returned, and its result
updateHintUsage(p, userId, gameId) ==
  LET q == getProgress(p, userId, gameId)
      k == Key(userId, gameId)
  IN IF q[k].completed
     THEN [ progress |-> q, success |-> FALSE,
            error |-> "Game already completed" ]
     ELSE [ progress |-> [q EXCEPT ![k].hints_used = @ + 1],
            success |-> TRUE, error |-> "" ]

\* recordAttempt
recordAttempt(p, userId, gameId) ==
  [k \in DOMAIN p |->
     IF k = Key(userId, gameId) THEN [p[k] EXCEPT !.attempts = @ + 1]
     ELSE p[k]]

\* completeGame
completeGame(p, userId, gameId, pointsEarned, t) ==
  [k \in DOMAIN p |->
     IF k = Key(userId, gameId)
     THEN [p[k] EXCEPT !.completed = TRUE, !.points_earned = pointsEarned,
                       !.completion_date = t]
     ELSE p[k]]

\* recordReward: INSERT INTO rewards; the table has UNIQUE (user_id, game_id)
\* and a failed INSERT is logged and answered with success: false
recordReward(rw, userId, gameId, rewardType) ==
  IF \E r \in rw : r.user_id = userId /\ r.game_id = gameId
  THEN rw
  ELSE rw \cup {[ user_id |-> userId, game_id |-> gameId,
                  reward_type |-> rewardType ]}

\* what a call of the reward service leaves: the error thrown ("none" when
\* it returns) and the rewards table
Issued(error, rw) == [error |-> error, rewards |-> rw]

\* variant: the row is recorded before the Badgr API is called
issueBadge_RecordFirst(rw, user, game, gameId, apiOk) ==
  IF ~user.email THEN Issued("no-email", rw)
  ELSE IF ~Truthy(game.badge_class_id) THEN Issued("no-badge-class", rw)
  ELSE Issued(IF apiOk THEN "none" ELSE "api-error",
              recordReward(rw, user.id, gameId, "badgr"))

\* RewardService.issueBadge gets as far as its request to the Badgr API
callsBadgeApi(user, game) ==
  game.reward_type = "badgr" /\ user.email /\ Truthy(game.badge_class_id)

\* RewardService.issueBadge; apiOk: the Badgr API call succeeds
issueBadge(rw, user, game, gameId, apiOk) ==
  IF ~user.email THEN Issued("no-email", rw)
  ELSE IF ~Truthy(game.badge_class_id) THEN Issued("no-badge-class", rw)
  ELSE IF ~apiOk THEN Issued("api-error", rw)
  ELSE Issued("none", recordReward(rw, user.id, gameId, "badgr"))

\* RewardService.issueTextReward
issueTextReward(rw, user, game, gameId) ==
  IF ~Truthy(game.reward_text) THEN Issued("no-text", rw)
  ELSE Issued("none", recordReward(rw, user.id, gameId, "text"))

\* RewardService.issueReward
rewardService(rw, user, game, gameId, apiOk) ==
  IF game.reward_type = "badgr" THEN issueBadge(rw, user, game, gameId, apiOk)
  ELSE IF game.reward_type = "text" THEN issueTextReward(rw, user, game, gameId)
  ELSE Issued("unknown-type", rw)

\* the rewards table after submit.js called issueReward for a registered
\* user (registration stores a valid email) and caught what it threw
issueReward(rw, userId, gameId, game, apiOk) ==
  rewardService(rw, [id |-> userId, email |-> TRUE], game, gameId, apiOk).rewards

\* SuccessAnnouncer.announceSuccess with recordSuccessAnnouncement; sent:
\* the message reaches the channel.  The row references its progress row.
\* Rows that differ only in id, time and message id are taken as one.
recordSuccessAnnouncement(an, p, userId, gameId, pointsEarned, sent) ==
  IF sent /\ Key(userId, gameId) \in DOMAIN p
  THEN an \cup {[ user_id |-> userId, game_id |-> gameId,
                  points_earned |-> pointsEarned ]}
  ELSE an

\* a command of the player side answered with a message and nothing else
Say(r) == Answer(r) /\ UNCHANGED playVars

\* what players type into the answer modal
AnswerInputs == { <<"X", " ", " ", "y">>, <<"x", "y">> }

\* ------------------------------------------------- /judge-submit
\* execute of submit.js up to awaitModalSubmit; n: the interaction
handleSubmit(u, gameId, n) ==
  IF u \notin Registered THEN Say("unregistered")
  ELSE IF ~isValidGameId(gameId, cfgGames) THEN Say("invalid")
  ELSE
    LET p == getProgress(progress, u, gameId)
        row == p[Key(u, gameId)]
    IN /\ progress' = p
       /\ IF row.completed
          THEN reply' = "completed" /\ UNCHANGED forms
          ELSE /\ reply' = "ok"
               /\ forms' = forms \cup
                    {[ n |-> n, user |-> u, gameId |-> gameId,
                       game |-> cfgGames[gameId],
                       hintsUsed |-> row.hints_used, answer |-> Absent ]}
       /\ UNCHANGED <<files, gamesYaml, cfgGames, aliased, dialogs, now, notified,
                      rewards, announcements, txn, hintDialogs, resets>>

\* A modal with customId submit-answer-<gameId> is submitted: every handler
\* waiting with that filter gets the submission, and the modal listener of
\* index.js runs.
modalSubmit(gameId, userAnswer) ==
  /\ \E f \in forms : f.gameId = gameId /\ f.answer = Absent
  /\ forms' = { IF f.gameId = gameId /\ f.answer = Absent
                THEN [f EXCEPT !.answer = userAnswer] ELSE f : f \in forms }
  /\ Commit(modalSubmitTail(St))
  /\ UNCHANGED <<dialogs, now, reply, notified, tables, txn, hintDialogs,
                 resets>>

\* execute of submit.js from the submission on
processSubmission(f, apiOk, sent) ==
  /\ f \in forms
  /\ f.answer # Absent
  /\ LET p1 == recordAttempt(progress, f.user, f.gameId)
         pointsEarned == calculatePoints(f.hintsUsed, f.game)
         p2 == completeGame(p1, f.user, f.gameId, pointsEarned, now)
     IN IF isCorrectAnswer(f.answer, f.game.answer)
        THEN /\ progress' = p2
             /\ rewards' = issueReward(rewards, f.user, f.gameId, f.game, apiOk)
             /\ announcements' =
                  recordSuccessAnnouncement(announcements, p2, f.user,
                                            f.gameId, pointsEarned, sent)
             /\ reply' = "correct"
        ELSE /\ progress' = p1
             /\ reply' = "incorrect"
             /\ UNCHANGED <<rewards, announcements>>
  /\ forms' = forms \ {f}
  /\ UNCHANGED <<files, gamesYaml, cfgGames, aliased, dialogs, now, notified, txn,
                 hintDialogs, resets>>

\* the modal is dismissed and the wait of 5 minutes runs out
cancelForm(f) ==
  /\ f \in forms
  /\ f.answer = Absent
  /\ forms' = forms \ {f}
  /\ UNCHANGED <<files, gamesYaml, cfgGames, aliased, dialogs, now, notified, reply,
                 tables, txn, hintDialogs, resets>>

\* ------------------------------------------------- /judge-hint
\* PointsCalculator.calculateMaxPossiblePoints
calculateMaxPossiblePoints(hintsUsed, game) == calculatePoints(hintsUsed, game)

\* hints_used of a confirmation whose updateHintUsage has not read the row
NoRead == -1

\* execute of hint.js up to the collector; n: the interaction
executeHint(u, gameId, n) ==
  IF u \notin Registered THEN Say("unregistered")
  ELSE IF ~isValidGameId(gameId, cfgGames) THEN Say("invalid")
  ELSE
    LET p == getProgress(progress, u, gameId)
        row == p[Key(u, gameId)]
        game == cfgGames[gameId]
    IN /\ progress' = p
       /\ IF row.completed
          THEN reply' = "completed" /\ UNCHANGED hintDialogs
          ELSE IF row.hints_used >= Len(game.hints)
          THEN reply' = "no-hints" /\ UNCHANGED hintDialogs
          ELSE /\ reply' = "ok"
               /\ hintDialogs' = hintDialogs \cup
                    {[ n |-> n, user |-> u, gameId |-> gameId,
                       game |-> game,
                       hintCost |-> calculateNextHintCost(row.hints_used),
                       maxPointsPossibleAfterHint |->
                         calculateMaxPossiblePoints(row.hints_used + 1, game),
                       pc |-> "open", hintsUsed |-> NoRead ]}
       /\ UNCHANGED <<files, gamesYaml, cfgGames, aliased, dialogs, now, notified,
                      rewards, announcements, txn, forms, resets>>

\* one /judge-hint confirmation at a time
handleHint(u, gameId) == executeHint(u, gameId, 1)

\* confirm-hint, by statement: updateHintUsage up to the row that its
\* getProgress returns, and its test of completed
confirmHintSelect(d) ==
  /\ d \in hintDialogs
  /\ d.pc = "open"
  /\ LET p == getProgress(progress, d.user, d.gameId)
         row == p[Key(d.user, d.gameId)]
     IN /\ progress' = p
        /\ IF row.completed
           THEN /\ hintDialogs' = hintDialogs \ {d}
                /\ reply' = "Game already completed"
           ELSE /\ hintDialogs' =
                     (hintDialogs \ {d}) \cup
                       {[d EXCEPT !.pc = "read", !.hintsUsed = row.hints_used]}
                /\ UNCHANGED reply
  /\ UNCHANGED <<files, gamesYaml, cfgGames, aliased, dialogs, now, notified,
                 rewards, announcements, txn, forms, resets>>

\* confirm-hint, by statement: UPDATE progress SET hints_used = hints_used + 1,
\* the result { hintsUsed: progress.hints_used + 1 } and the hint shown
confirmHintUpdate(d) ==
  /\ d \in hintDialogs
  /\ d.pc = "read"
  /\ progress' =
       [k \in DOMAIN progress |->
          IF k = Key(d.user, d.gameId)
          THEN [progress[k] EXCEPT !.hints_used = @ + 1]
          ELSE progress[k]]
  /\ hintDialogs' =
       (hintDialogs \ {d}) \cup
         {[d EXCEPT !.pc = "shown", !.hintsUsed = d.hintsUsed + 1]}
  /\ reply' = "hint"
  /\ UNCHANGED <<files, gamesYaml, cfgGames, aliased, dialogs, now, notified,
                 rewards, announcements, txn, forms, resets>>

\* confirm-hint
confirmHint(d) ==
  /\ d \in hintDialogs
  /\ LET res == updateHintUsage(progress, d.user, d.gameId)
     IN /\ progress' = res.progress
        /\ reply' = IF res.success THEN "hint" ELSE res.error
  /\ hintDialogs' = hintDialogs \ {d}
  /\ UNCHANGED <<files, gamesYaml, cfgGames, aliased, dialogs, now, notified,
                 rewards, announcements, txn, forms, resets>>

\* cancel-hint, or the collector's 30 seconds run out
cancelHint(d) ==
  /\ d \in hintDialogs
  /\ hintDialogs' = hintDialogs \ {d}
  /\ UNCHANGED <<files, gamesYaml, cfgGames, aliased, dialogs, now, notified, reply,
                 tables, txn, forms, resets>>

\* ------------------------------------------------- /judge-admin manage-hints
\* what the handlers of the other commands leave alone
others ==
  <<files, gamesYaml, cfgGames, aliased, dialogs, now, notified, rewards,
    announcements, txn, forms, hintDialogs, resets>>

\* variant: a completed row is left as it is
adminManageHints_Checked(p, userId, gameId, action) ==
  LET q == getProgress(p, userId, gameId)
      k == Key(userId, gameId)
      newHintCount == IF action = 0 THEN 0
                      ELSE IF action = -1 THEN Max(0, q[k].hints_used - 1)
                      ELSE q[k].hints_used + 1
  IN IF q[k].completed THEN q
     ELSE [q EXCEPT ![k].hints_used = newHintCount]

\* adminManageHints: the table once it has returned
adminManageHints(p, userId, gameId, action) ==
  LET q == getProgress(p, userId, gameId)
      k == Key(userId, gameId)
      newHintCount == IF action = 0 THEN 0
                      ELSE IF action = -1 THEN Max(0, q[k].hints_used - 1)
                      ELSE q[k].hints_used + 1
  IN [q EXCEPT ![k].hints_used = newHintCount]

\* the manage-hints subcommand of admin.js up to its confirmation message
handleManageHints(admin, target, gameId, action) ==
  IF ~isAdmin(admin, Admins) THEN Say("denied")
  ELSE IF ~isValidGameId(gameId, cfgGames) THEN Say("invalid")
  ELSE IF target \notin Registered THEN Say("unregistered")
  ELSE
    LET p == getProgress(progress, target, gameId)
    IN /\ progress' = p
       /\ IF p[Key(target, gameId)].completed
          THEN reply' = "completed" /\ UNCHANGED manages
          ELSE /\ reply' = "ok"
               /\ manages' = manages \cup
                    {[ admin |-> admin, user |-> target, gameId |-> gameId,
                       action |-> action ]}
       /\ UNCHANGED others
       /\ UNCHANGED calls

\* confirm-hint-manage
confirmManageHints(m) ==
  /\ m \in manages
  /\ progress' = adminManageHints(progress, m.user, m.gameId, m.action)
  /\ reply' = "managed"
  /\ manages' = manages \ {m}
  /\ UNCHANGED others
  /\ UNCHANGED calls

\* cancel-hint-manage, or the collector's 30 seconds run out
cancelManageHints(m) ==
  /\ m \in manages
  /\ manages' = manages \ {m}
  /\ UNCHANGED <<others, progress, reply, calls>>

\* ------------------------------------------------- /judge-admin reset
Tables ==
  [ progress |-> progress, rewards |-> rewards,
    announcements |-> announcements ]

\* WHERE user_id = ? [AND game_id = ?]
matches(userId, gameId, rowUser, rowGame) ==
  rowUser = userId /\ (gameId = NullGame \/ rowGame = gameId)

\* DELETE FROM success_announcements
deleteAnnouncements(an, userId, gameId) ==
  {a \in an : ~matches(userId, gameId, a.user_id, a.game_id)}

\* DELETE FROM rewards
deleteRewards(rw, userId, gameId) ==
  {r \in rw : ~matches(userId, gameId, r.user_id, r.game_id)}

\* DELETE FROM progress
deleteProgress(p, userId, gameId) ==
  [k \in {j \in DOMAIN p : ~matches(userId, gameId, j[1], j[2])} |-> p[k]]

\* success_announcements (user_id, game_id) REFERENCES progress, with
\* PRAGMA foreign_keys = ON: a progress row that is referenced stays
referenced(an, p, userId, gameId) ==
  \E a \in an :
    /\ matches(userId, gameId, a.user_id, a.game_id)
    /\ Key(a.user_id, a.game_id) \in DOMAIN p

\* the reset subcommand of admin.js up to its confirmation message
handleReset(admin, target, gameId) ==
  IF ~isAdmin(admin, Admins) THEN Say("denied")
  ELSE IF gameId # NullGame /\ ~isValidGameId(gameId, cfgGames)
  THEN Say("invalid")
  ELSE IF target \notin Registered THEN Say("unregistered")
  ELSE /\ resets' = resets \cup
            {[ admin |-> admin, user |-> target, gameId |-> gameId,
               pc |-> "confirm" ]}
       /\ reply' = "ok"
       /\ UNCHANGED <<files, gamesYaml, cfgGames, aliased, dialogs, now, notified,
                      tables, txn, forms, hintDialogs>>

\* cancel-reset, or the collector's 30 seconds run out
cancelReset(r) ==
  /\ r \in resets
  /\ r.pc = "confirm"
  /\ resets' = resets \ {r}
  /\ UNCHANGED <<files, gamesYaml, cfgGames, aliased, dialogs, now, notified, reply,
                 tables, txn, forms, hintDialogs>>

resetMoves(r, pc) == resets' = (resets \ {r}) \cup {[r EXCEPT !.pc = pc]}

\* variant: the transaction is ended without undoing its statements
resetRollback_Keep(r) ==
  /\ txn' = {}
  /\ resets' = resets \ {r}
  /\ reply' = "reset-failed"
  /\ UNCHANGED tables

\* resetUserProgress: ROLLBACK, the error is thrown on, failure is returned
resetRollback(r) ==
  /\ \E was \in txn :
       /\ progress' = was.progress
       /\ rewards' = was.rewards
       /\ announcements' = was.announcements
  /\ txn' = {}
  /\ resets' = resets \ {r}
  /\ reply' = "reset-failed"

\* confirm-reset: resetUserProgress runs BEGIN TRANSACTION, which fails
\* while the connection has a transaction open
resetBegin(r) ==
  /\ r \in resets
  /\ r.pc = "confirm"
  /\ IF txn # {}
     THEN /\ resets' = resets \ {r}
          /\ reply' = "reset-failed"
          /\ UNCHANGED <<tables, txn>>
     ELSE /\ txn' = {Tables}
          /\ resetMoves(r, "announcements")
          /\ UNCHANGED <<tables, reply>>
  /\ UNCHANGED <<files, gamesYaml, cfgGames, aliased, dialogs, now, notified, forms,
                 hintDialogs>>

\* resetUserProgress: the first DELETE; ok: the statement succeeds
resetAnnouncements(r, ok) ==
  /\ r \in resets
  /\ r.pc = "announcements"
  /\ IF ok
     THEN /\ announcements' = deleteAnnouncements(announcements, r.user, r.gameId)
          /\ resetMoves(r, "rewards")
          /\ UNCHANGED <<progress, rewards, txn, reply>>
     ELSE resetRollback(r)
  /\ UNCHANGED <<files, gamesYaml, cfgGames, aliased, dialogs, now, notified, forms,
                 hintDialogs>>

\* resetUserProgress: the second DELETE
resetRewards(r, ok) ==
  /\ r \in resets
  /\ r.pc = "rewards"
  /\ IF ok
     THEN /\ rewards' = deleteRewards(rewards, r.user, r.gameId)
          /\ resetMoves(r, "progress")
          /\ UNCHANGED <<progress, announcements, txn, reply>>
     ELSE resetRollback(r)
  /\ UNCHANGED <<files, gamesYaml, cfgGames, aliased, dialogs, now, notified, forms,
                 hintDialogs>>

\* resetUserProgress: the third DELETE
resetProgress(r, ok) ==
  /\ r \in resets
  /\ r.pc = "progress"
  /\ IF ok /\ ~referenced(announcements, progress, r.user, r.gameId)
     THEN /\ progress' = deleteProgress(progress, r.user, r.gameId)
          /\ resetMoves(r, "commit")
          /\ UNCHANGED <<rewards, announcements, txn, reply>>
     ELSE resetRollback(r)
  /\ UNCHANGED <<files, gamesYaml, cfgGames, aliased, dialogs, now, notified, forms,
                 hintDialogs>>

\* resetUserProgress: COMMIT, success is returned
resetCommit(r, ok) ==
  /\ r \in resets
  /\ r.pc = "commit"
  /\ IF ok
     THEN /\ txn' = {}
          /\ resets' = resets \ {r}
          /\ reply' = "reset-ok"
          /\ UNCHANGED tables
     ELSE resetRollback(r)
  /\ UNCHANGED <<files, gamesYaml, cfgGames, aliased, dialogs, now, notified, forms,
                 hintDialogs>>

\* ------------------------------------------------- environment
\* cancel button, collector timeout, modal dismissed
Cancel(d) ==
  /\ d \in dialogs
  /\ Close(d)
  /\ reply' = "ok"
  /\ notified' = "none"
  /\ UNCHANGED <<files, gamesYaml, cfgGames, aliased, now>>

\* Time passes to the next id-timestamp window.  Every collector
\* (1 minute) and modal wait (5 minutes) has timed out by then.
Tick ==
  /\ now < MaxTicks
  /\ now' = now + 1
  /\ dialogs' = {}
  /\ forms' = {f \in forms : f.answer # Absent}
  /\ hintDialogs' = {}
  /\ resets' = {r \in resets : r.pc # "confirm"}
  /\ manages' = {}
  /\ UNCHANGED <<files, gamesYaml, cfgGames, aliased, reply, notified,
                 tables, txn, calls>>

\* The process is started again: index.js loads config/games.yaml into
\* config and sets global.config = config.
Restart ==
  /\ cfgGames' = gamesYaml
  /\ aliased' = TRUE
  /\ dialogs' = {}
  /\ forms' = {}
  /\ hintDialogs' = {}
  /\ resets' = {}
  /\ calls' = {}
  /\ manages' = {}
  /\ txn' = {}
  /\ IF txn = {} THEN UNCHANGED tables
     ELSE LET was == CHOOSE t \in txn : TRUE
          IN /\ progress' = was.progress
             /\ rewards' = was.rewards
             /\ announcements' = was.announcements
  /\ UNCHANGED <<files, gamesYaml, now, reply, notified>>

\* ------------------------------------------------- steps
Create(creators, filled, cap, maxFiles) ==
  \E u \in creators, f \in filled :
    /\ handleGameCreate(u, f.name, f.desc, f.answer, f.diff, combinedField(f),
                        CanOpen(cap))
    /\ Cardinality(DOMAIN files') <= maxFiles
    /\ UNCHANGED playVars

Approve(cap) ==
  /\ CanOpen(cap)
  /\ \E u \in Users, g \in DOMAIN files : handleApproveGame(u, g)
  /\ UNCHANGED playVars

ConfirmApprove ==
  /\ \E d \in dialogs, i \in Clickers : confirmApprove(d, i)
  /\ UNCHANGED playVars

Reject(cap) ==
  /\ CanOpen(cap)
  /\ \E u \in Users, g \in DOMAIN files, r \in RejectReasons :
       handleRejectGame(u, g, r)
  /\ UNCHANGED playVars

ConfirmReject ==
  /\ \E d \in dialogs, i \in Clickers : confirmReject(d, i)
  /\ UNCHANGED playVars

Disable(cap) ==
  /\ CanOpen(cap)
  /\ \E u \in Users, g \in DOMAIN files : handleDisableGame(u, g)
  /\ UNCHANGED playVars

EnableGame ==
  /\ \E d \in dialogs, i \in Clickers : enableGame(d, i)
  /\ UNCHANGED playVars

SubmitDisable ==
  /\ \E d \in dialogs, r \in DisableReasons : submitDisable(d, r)
  /\ UNCHANGED playVars

Edit(cap) ==
  /\ CanOpen(cap)
  /\ \E u \in Users, g \in DOMAIN files : handleGameEdit(u, g)
  /\ UNCHANGED playVars

SubmitEdit(filled, asks) ==
  /\ \E d \in dialogs, f \in filled, a \in asks :
       submitEdit(d, f.name, f.desc, f.answer, f.diff, f.hints, a)
  /\ UNCHANGED playVars

Remove(cap) ==
  /\ CanOpen(cap)
  /\ \E u \in Users, g \in DOMAIN files : handleGameRemove(u, g)
  /\ UNCHANGED playVars

ConfirmRemove ==
  /\ \E d \in dialogs, i \in Clickers : confirmRemove(d, i)
  /\ UNCHANGED playVars

SubmitRewardConfig ==
  /\ \E d \in dialogs, v \in ConfigInputs : submitRewardConfig(d, v)
  /\ UNCHANGED playVars

CancelDialog ==
  /\ \E d \in dialogs : Cancel(d)
  /\ UNCHANGED playVars

\* attempts recorded and still to come of one player on one challenge
\* (a ROLLBACK may bring back the attempts of the row BEGIN found)
attemptsOf(p, u, g) ==
  IF Key(u, g) \in DOMAIN p THEN p[Key(u, g)].attempts ELSE 0

attemptsDue(u, g) ==
  LET was == IF txn = {} THEN 0
             ELSE attemptsOf((CHOOSE t \in txn : TRUE).progress, u, g)
  IN Max(attemptsOf(progress, u, g), was)
       + Cardinality({f \in forms : f.user = u /\ f.gameId = g})

Submit(players, games, cap, tries) ==
  /\ Cardinality(forms) < cap
  /\ \E u \in players, g \in games :
       /\ attemptsDue(u, g) < tries
       /\ \E n \in 1..cap :
            /\ \A f \in forms : f.n # n
            /\ \A m \in 1..(n - 1) : \E f \in forms : f.n = m
            /\ handleSubmit(u, g, n)
  /\ UNCHANGED <<calls, manages>>

ModalSubmit ==
  /\ \E g \in DOMAIN cfgGames, a \in AnswerInputs : modalSubmit(g, a)
  /\ UNCHANGED <<calls, manages>>

ProcessSubmission ==
  /\ \E f \in forms, apiOk \in BOOLEAN, sent \in BOOLEAN :
      processSubmission(f, apiOk, sent)
  /\ UNCHANGED <<calls, manages>>

CancelForm ==
  /\ \E f \in forms : cancelForm(f)
  /\ UNCHANGED <<calls, manages>>

Hint(players, games, cap) ==
  /\ Cardinality(hintDialogs) < cap
  /\ \E u \in players, g \in games : handleHint(u, g)
  /\ UNCHANGED <<calls, manages>>

ConfirmHint ==
  /\ \E d \in hintDialogs : confirmHint(d)
  /\ UNCHANGED <<calls, manages>>

CancelHint ==
  /\ \E d \in hintDialogs : cancelHint(d)
  /\ UNCHANGED <<calls, manages>>

ManageHints(targets, games, cap) ==
  /\ Cardinality(manages) < cap
  /\ \E admin \in {AdminId, Player}, u \in targets, g \in games,
        action \in {1, -1, 0} :
       handleManageHints(admin, u, g, action)

ConfirmManageHints ==
  \E m \in manages :
    /\ \A k \in DOMAIN progress : progress[k].hints_used < MaxManaged
    /\ confirmManageHints(m)

CancelManageHints == \E m \in manages : cancelManageHints(m)

Reset(targets, games) ==
  /\ Cardinality(resets) < MaxResets
  /\ \E admin \in {AdminId, Player}, u \in targets, g \in games :
       handleReset(admin, u, g)
  /\ UNCHANGED <<calls, manages>>

CancelReset ==
  /\ \E r \in resets : cancelReset(r)
  /\ UNCHANGED <<calls, manages>>

ResetBegin ==
  /\ \E r \in resets : resetBegin(r)
  /\ UNCHANGED <<calls, manages>>

ResetAnnouncements ==
  /\ \E r \in resets, ok \in BOOLEAN : resetAnnouncements(r, ok)
  /\ UNCHANGED <<calls, manages>>

ResetRewards ==
  /\ \E r \in resets, ok \in BOOLEAN : resetRewards(r, ok)
  /\ UNCHANGED <<calls, manages>>

ResetProgress ==
  /\ \E r \in resets, ok \in BOOLEAN : resetProgress(r, ok)
  /\ UNCHANGED <<calls, manages>>

ResetCommit ==
  /\ \E r \in resets, ok \in BOOLEAN : resetCommit(r, ok)
  /\ UNCHANGED <<calls, manages>>

\* ------------------------------------------------- the approval workflow
NextMaker ==
  \/ Create({Maker1, Player}, CreateForms, MaxDialogs, MaxGames)
  \/ Approve(MaxDialogs)
  \/ ConfirmApprove
  \/ Reject(MaxDialogs)
  \/ ConfirmReject
  \/ Disable(MaxDialogs)
  \/ EnableGame
  \/ SubmitDisable
  \/ Edit(MaxDialogs)
  \/ SubmitEdit({BaseForm, AnswerForm}, BOOLEAN)
  \/ Remove(MaxDialogs)
  \/ ConfirmRemove
  \/ SubmitRewardConfig
  \/ CancelDialog
  \/ Restart

SpecMaker == Init /\ [][NextMaker]_vars

\* ------------------------------------------------- concurrent editors
NextEdit ==
  \/ Create({Maker1}, {BaseForm, TextForm}, MaxEditors, MaxGames)
  \/ Approve(MaxEditors)
  \/ ConfirmApprove
  \/ Edit(MaxEditors)
  \/ SubmitEdit(EditForms, {FALSE})
  \/ CancelDialog

SpecEdit == Init /\ [][NextEdit]_vars

\* ------------------------------------------------- creation over time
OtherNameForm == [BaseForm EXCEPT !.name = <<"b", " ">>, !.answer = <<"y">>]

BlankDescForm == [BaseForm EXCEPT !.desc = <<" ", " ">>]

BlankAnswerForm == [BaseForm EXCEPT !.answer = <<>>]

AllCreateForms ==
  CreateForms \cup {OtherNameForm, BlankDescForm, BlankAnswerForm}

NextCreate ==
  \/ Create(MakerRole \cup {Player}, AllCreateForms, MaxDialogs, MaxCreated)
  \/ Remove(MaxDialogs)
  \/ ConfirmRemove
  \/ SubmitRewardConfig
  \/ CancelDialog
  \/ Tick

SpecCreate == Init /\ [][NextCreate]_vars

\* ------------------------------------------------- one player, one challenge
NextPlay ==
  \/ Submit({Player, Maker2}, {ManualId, UnknownId}, MaxForms, MaxAttempts)
  \/ ModalSubmit
  \/ ProcessSubmission
  \/ CancelForm
  \/ Hint({Player, Maker2}, {ManualId, UnknownId}, MaxHintDialogs)
  \/ ConfirmHint
  \/ CancelHint

SpecPlay == Init /\ [][NextPlay]_vars

\* ------------------------------------------------- resets among players
NextReset ==
  \/ Submit({Player}, {ManualId, Manual2Id}, MaxResetForms, MaxResetForms)
  \/ Submit({Maker1}, {ManualId}, MaxResetForms, MaxResetForms)
  \/ ModalSubmit
  \/ ProcessSubmission
  \/ Reset({Player, Maker2}, {NullGame, ManualId, UnknownId})
  \/ CancelReset
  \/ ResetBegin
  \/ ResetAnnouncements
  \/ ResetRewards
  \/ ResetProgress
  \/ ResetCommit

SpecReset == Init /\ [][NextReset]_vars

\* ------------------------------------------------- points of a completion
\* a challenge of config/games.yaml with many hints, of difficulty d
PointsId == [base |-> <<"p">>, ts |-> -1, suffix |-> <<>>]

PointsGame(d) ==
  [ManualGame EXCEPT !.name = <<"p">>, !.difficulty = d,
                     !.hints = [i \in 1..MaxHintsUsed |-> <<"h">>]]

InitPoints ==
  /\ files = NoGames
  /\ \E d \in 1..4 : gamesYaml = (PointsId :> PointsGame(d))
  /\ cfgGames = gamesYaml
  /\ aliased = TRUE
  /\ dialogs = {}
  /\ now = 0
  /\ reply = "ok"
  /\ notified = "none"
  /\ progress = NoRows
  /\ rewards = {}
  /\ announcements = {}
  /\ txn = {}
  /\ forms = {}
  /\ hintDialogs = {}
  /\ resets = {}
  /\ calls = {}
  /\ manages = {}

NextPoints ==
  \/ Submit({Player}, {PointsId}, MaxResetForms, MaxResetForms)
  \/ ModalSubmit
  \/ ProcessSubmission
  \/ CancelForm
  \/ Hint({Player}, {PointsId}, MaxHintDialogs)
  \/ ConfirmHint
  \/ CancelHint

SpecPoints == InitPoints /\ [][NextPoints]_vars

\* ------------------------------------------------- hints, managed and taken
\* One player and one challenge: answers, hint confirmations and an admin's
\* manage-hints confirmations, open at the same time.
NextHints ==
  \/ Submit({Player}, {ManualId}, MaxResetForms, MaxAttempts)
  \/ ModalSubmit
  \/ ProcessSubmission
  \/ CancelForm
  \/ Hint({Player}, {ManualId}, MaxHintDialogs)
  \/ ConfirmHint
  \/ CancelHint
  \/ ManageHints({Player}, {ManualId}, MaxManages)
  \/ ConfirmManageHints
  \/ CancelManageHints

SpecHints == Init /\ [][NextHints]_vars

\* ------------------------------------------------- reward settings
\* One maker's challenge: created, configured, approved, and its reward
\* changed with /maker-advanced; the bot restarts.
AdvancedInputs == { <<>>, <<"c", " ">> }

AdvancedSettings(cap) ==
  /\ CanOpen(cap)
  /\ \E u \in {Maker1, Player}, g \in DOMAIN files : handleAdvancedSettings(u, g)
  /\ UNCHANGED playVars

SubmitAdvanced ==
  /\ \E d \in dialogs, b \in AdvancedInputs, t \in AdvancedInputs :
       submitAdvanced(d, b, t)
  /\ UNCHANGED playVars

RewardSettings(cap) ==
  /\ CanOpen(cap)
  /\ \E u \in {Maker1, Maker2}, g \in DOMAIN files, t \in {"badgr", "text"} :
       handleRewardSettings(u, g, t)
  /\ UNCHANGED playVars

SubmitRewardSettings ==
  /\ \E d \in dialogs, v \in AdvancedInputs \cup {<<" ">>} :
       submitRewardSettings(d, v)
  /\ UNCHANGED playVars

NextAdvanced ==
  \/ Create({Maker1}, {BaseForm, TextForm}, MaxDialogs, 1)
  \/ SubmitRewardConfig
  \/ Approve(MaxDialogs)
  \/ ConfirmApprove
  \/ AdvancedSettings(MaxDialogs)
  \/ SubmitAdvanced
  \/ RewardSettings(MaxDialogs)
  \/ SubmitRewardSettings
  \/ CancelDialog
  \/ Restart

SpecAdvanced == Init /\ [][NextAdvanced]_vars

\* ------------------------------------------------- a badge challenge
\* One player and one challenge rewarded with a badge.
BadgeGame ==
  [ManualGame EXCEPT !.reward_type = "badgr", !.badge_class_id = <<"c">>]

InitBadge ==
  /\ files = NoGames
  /\ gamesYaml = (ManualId :> BadgeGame)
  /\ cfgGames = gamesYaml
  /\ aliased = TRUE
  /\ dialogs = {}
  /\ now = 0
  /\ reply = "ok"
  /\ notified = "none"
  /\ progress = NoRows
  /\ rewards = {}
  /\ announcements = {}
  /\ txn = {}
  /\ forms = {}
  /\ hintDialogs = {}
  /\ resets = {}
  /\ calls = {}
  /\ manages = {}

NextBadge ==
  \/ Submit({Player}, {ManualId}, MaxForms, MaxAttempts)
  \/ ModalSubmit
  \/ ProcessSubmission
  \/ CancelForm
  \/ Hint({Player}, {ManualId}, MaxHintDialogs)
  \/ ConfirmHint
  \/ CancelHint

SpecBadge == InitBadge /\ [][NextBadge]_vars

\* ------------------------------------------------- hints by statement
\* One player and one challenge with two hints: /judge-hint confirmations
\* open at the same time, whose updateHintUsage runs statement by statement,
\* and the player's answers.
HintStep ==
  /\ \E n \in 1..MaxHintSteps :
       /\ \A d \in hintDialogs : d.n # n
       /\ \A m \in 1..(n - 1) : \E d \in hintDialogs : d.n = m
       /\ executeHint(Player, ManualId, n)
  /\ UNCHANGED <<calls, manages>>

ConfirmHintSelect ==
  /\ \E d \in hintDialogs : confirmHintSelect(d)
  /\ UNCHANGED <<calls, manages>>

ConfirmHintUpdate ==
  /\ \E d \in hintDialogs : confirmHintUpdate(d)
  /\ UNCHANGED <<calls, manages>>

NextHintSteps ==
  \/ HintStep
  \/ ConfirmHintSelect
  \/ ConfirmHintUpdate
  \/ Submit({Player}, {ManualId}, MaxResetForms, MaxAttempts)
  \/ ModalSubmit
  \/ ProcessSubmission
  \/ CancelForm

SpecHintSteps == Init /\ [][NextHintSteps]_vars

\* ------------------------------------------------- the answer comparison
\* One challenge whose stored answer is any short text, and a player who
\* types any short text into the answer modal.
AnswerChars == {"a", "A", "b", " "}

AnswerTexts == UNION {[1..k -> AnswerChars] : k \in 0..MaxAnswerChars}

InitAnswers ==
  /\ files = NoGames
  /\ \E s \in AnswerTexts \ {<<>>} :
       gamesYaml = (ManualId :> [ManualGame EXCEPT !.answer = s])
  /\ cfgGames = gamesYaml
  /\ aliased = TRUE
  /\ dialogs = {}
  /\ now = 0
  /\ reply = "ok"
  /\ notified = "none"
  /\ progress = NoRows
  /\ rewards = {}
  /\ announcements = {}
  /\ txn = {}
  /\ forms = {}
  /\ hintDialogs = {}
  /\ resets = {}
  /\ calls = {}
  /\ manages = {}

TypeAnswer ==
  /\ \E a \in AnswerTexts : modalSubmit(ManualId, a)
  /\ UNCHANGED <<calls, manages>>

NextAnswers ==
  \/ Submit({Player}, {ManualId}, MaxResetForms, MaxResetForms)
  \/ TypeAnswer
  \/ ProcessSubmission
  \/ CancelForm

SpecAnswers == InitAnswers /\ [][NextAnswers]_vars

\* ------------------------------------------------- getProgress by statement
\* In these runs the progress table is kept the way SQLite keeps it, by
\* row id (AUTOINCREMENT), so that two rows of one (user, game) pair are
\* two rows, and getProgress runs statement by statement: other handlers
\* run between its SELECT and its INSERT.

\* SELECT * FROM progress WHERE user_id = ? AND game_id = ?
selectProgress(tbl, userId, gameId) ==
  {i \in DOMAIN tbl : tbl[i].user_id = userId /\ tbl[i].game_id = gameId}

\* variant: the table has no UNIQUE constraint
insertAllowed_NoUnique(tbl, userId, gameId) == TRUE

\* UNIQUE (user_id, game_id) lets the INSERT through
insertAllowed(tbl, userId, gameId) == selectProgress(tbl, userId, gameId) = {}

\* INSERT INTO progress (user_id, game_id, hints_used, attempts)
insertProgress(tbl, userId, gameId) ==
  LET id == Cardinality(DOMAIN tbl) + 1
  IN (id :> [ user_id |-> userId, game_id |-> gameId, completed |-> FALSE,
              hints_used |-> 0, points_earned |-> NoPoints, attempts |-> 0,
              completion_date |-> NoDate ]) @@ tbl

\* a getProgress call; ok: it returned an object (not null); again: when
\* it started, a call for the same pair had returned an object
\* ------------------------------------------------- approvals, completions
\* and their announcements
NextNotice ==
  \/ Create({Maker1}, {BaseForm, TextForm}, MaxDialogs, MaxGames)
  \/ Approve(MaxDialogs)
  \/ ConfirmApprove
  \/ CancelDialog
  \/ Submit({Player}, {ManualId}, MaxForms, MaxAttempts)
  \/ ModalSubmit
  \/ ProcessSubmission
  \/ CancelForm

SpecNotice == Init /\ [][NextNotice]_vars

\* ------------------------------------------------- every confirmation and
\* form, one at a time, confirmed, cancelled or timed out
\* no confirmation and no form is open
Idle ==
  /\ dialogs = {}
  /\ forms = {}
  /\ hintDialogs = {}
  /\ resets = {}
  /\ manages = {}

NextDialogs ==
  \/ Create({Maker1}, {BaseForm}, MaxDialogs, MaxGames)
  \/ Idle /\ Approve(MaxDialogs)
  \/ ConfirmApprove
  \/ Idle /\ Reject(MaxDialogs)
  \/ Idle /\ Disable(MaxDialogs)
  \/ Idle /\ Edit(MaxDialogs)
  \/ Idle /\ Remove(MaxDialogs)
  \/ CancelDialog
  \/ Idle /\ Submit({Player}, {ManualId}, MaxResetForms, MaxAttempts)
  \/ ModalSubmit
  \/ ProcessSubmission
  \/ CancelForm
  \/ Idle /\ Hint({Player}, {ManualId}, MaxHintDialogs)
  \/ ConfirmHint
  \/ CancelHint
  \/ Idle /\ Reset({Player}, {ManualId, NullGame})
  \/ CancelReset
  \/ Idle /\ ManageHints({Player}, {ManualId}, MaxManages)
  \/ ConfirmManageHints
  \/ CancelManageHints
  \/ Tick

SpecDialogs == Init /\ [][NextDialogs]_vars

\* ------------------------------------------------- the reward service
\* users as the service gets them: database id, and whether email is set
RewardUsers ==
  { [id |-> Player, email |-> TRUE], [id |-> Maker1, email |-> TRUE],
    [id |-> Maker2, email |-> FALSE] }

\* games as config.games may hold them
RewardGames ==
  { ManualGame,
    [ManualGame EXCEPT !.reward_text = <<>>],
    [ManualGame EXCEPT !.reward_text = Absent],
    [ManualGame EXCEPT !.reward_type = "badgr", !.badge_class_id = <<"c">>],
    [ManualGame EXCEPT !.reward_type = "badgr"],
    [ManualGame EXCEPT !.reward_type = "coin"] }

\* one call of rewardService.issueReward(user, game)
IssueReward ==
  \E user \in RewardUsers, game \in RewardGames,
     gameId \in DOMAIN ManualGames, apiOk \in BOOLEAN :
    /\ rewards' = rewardService(rewards, user, game, gameId, apiOk).rewards
    /\ reply' = rewardService(rewards, user, game, gameId, apiOk).error
    /\ UNCHANGED <<files, gamesYaml, cfgGames, aliased, dialogs, now, notified,
                   progress, announcements, txn, forms, hintDialogs, resets,
                   calls, manages>>

NextReward == IssueReward

SpecReward == Init /\ [][NextReward]_vars

Call(n, userId, gameId, pc, again, ok, hintsUsed, completed, attempts) ==
  [ n |-> n, user_id |-> userId, game_id |-> gameId, pc |-> pc,
    again |-> again, ok |-> ok, hints_used |-> hintsUsed,
    completed |-> completed, attempts |-> attempts ]

rowsUnchanged ==
  UNCHANGED <<files, gamesYaml, cfgGames, aliased, dialogs, now, reply, notified,
              rewards, announcements, txn, forms, hintDialogs, resets,
              manages>>

\* getProgress up to the answer of its SELECT
getProgressSelect(n, userId, gameId) ==
  LET found == selectProgress(progress, userId, gameId)
      again == \E c \in calls :
                 /\ c.user_id = userId /\ c.game_id = gameId
                 /\ c.pc = "returned" /\ c.ok
  IN /\ \A c \in calls : c.n # n
     /\ calls' = calls \cup
          { IF gameId = NullGame
            THEN Call(n, userId, gameId, "returned", again, FALSE, 0, FALSE, 0)
            ELSE IF found = {}
            THEN Call(n, userId, gameId, "insert", again, FALSE, 0, FALSE, 0)
            ELSE LET row == progress[CHOOSE i \in found : \A j \in found : i <= j]
                 IN Call(n, userId, gameId, "returned", again, TRUE,
                         row.hints_used, row.completed, row.attempts) }
     /\ UNCHANGED progress
     /\ rowsUnchanged

\* getProgress from its INSERT on; a refused INSERT throws, and the catch
\* block returns null
getProgressInsert(c) ==
  /\ c \in calls
  /\ c.pc = "insert"
  /\ IF insertAllowed(progress, c.user_id, c.game_id)
     THEN /\ progress' = insertProgress(progress, c.user_id, c.game_id)
          /\ calls' = (calls \ {c}) \cup
               {[c EXCEPT !.pc = "returned", !.ok = TRUE]}
     ELSE /\ UNCHANGED progress
          /\ calls' = (calls \ {c}) \cup {[c EXCEPT !.pc = "returned"]}
  /\ rowsUnchanged

GetProgressSelect ==
  \E n \in 1..MaxCalls, u \in Registered, g \in {ManualId, NullGame} :
    /\ \A m \in 1..(n - 1) : \E c \in calls : c.n = m
    /\ getProgressSelect(n, u, g)

GetProgressInsert == \E c \in calls : getProgressInsert(c)

NextRows ==
  \/ GetProgressSelect
  \/ GetProgressInsert

SpecRows == Init /\ [][NextRows]_vars

\* ------------------------------------------------- derived notions
\* the category handleListGames files a stored challenge under
lifecycleState(g) ==
  IF g.disabled THEN "disabled"
  ELSE IF g.rejected THEN "rejected"
  ELSE IF g.approved THEN "approved"
  ELSE "pending"

\* dialogs that end in this step
Closing == dialogs \ dialogs'

\* =================================================== claims
\* C1: no challenge whose stored record is disabled or rejected is in the
\* index config.games that the player commands read.
C1_HiddenNotInIndex ==
  \A g \in DOMAIN files :
    (files[g].disabled \/ files[g].rejected) => g \notin DOMAIN cfgGames

\* C2: a lifecycle step asked for in a state from which the table does not
\* allow it (approve outside pending, reject outside pending/approved,
\* disable outside approved, re-enable outside disabled) leaves the stored
\* challenge unchanged.
C2_LegalFrom(kind) ==
  IF kind = "approve" THEN {"pending"}
  ELSE IF kind = "reject" THEN {"pending", "approved"}
  ELSE IF kind = "disable" THEN {"approved"}
  ELSE {"disabled"}

C2_IllegalTransitionFails ==
  [][\A d \in Closing :
       ( /\ d.kind \in {"approve", "reject", "disable", "enable"}
         /\ d.gameId \in DOMAIN files
         /\ lifecycleState(files[d.gameId]) \notin C2_LegalFrom(d.kind) )
       => ( /\ d.gameId \in DOMAIN files'
            /\ files'[d.gameId] = files[d.gameId] )]_vars

\* C3: confirming the approval of a pending challenge that has no reward
\* payload leaves it pending and out of the index.
C3_ApproveNeedsReward ==
  [][\A d \in Closing :
       ( /\ d.kind = "approve"
         /\ d.gameId \in DOMAIN files
         /\ lifecycleState(files[d.gameId]) = "pending"
         /\ ~rewardConfigured(files[d.gameId]) )
       => ( /\ d.gameId \in DOMAIN files'
            /\ lifecycleState(files'[d.gameId]) = "pending"
            /\ d.gameId \notin DOMAIN cfgGames' )]_vars

\* C4: outside a reset, a completed progress row stays completed and
\* keeps its points_earned and its completion date, whatever answers are
\* submitted and hints requested afterwards.
C4_CompletedIsFinal ==
  [][(txn = {} /\ txn' = {}) =>
       \A k \in DOMAIN progress :
         progress[k].completed =>
           /\ k \in DOMAIN progress'
           /\ progress'[k].completed
           /\ progress'[k].points_earned = progress[k].points_earned
           /\ progress'[k].completion_date = progress[k].completion_date]_vars

\* C5: confirming a hint for a (user, challenge) row that is completed is
\* answered 'Game already completed' and leaves the row, hints_used
\* included, as it was.
C5_NoHintOnceCompleted ==
  [][\A d \in hintDialogs :
       ( /\ confirmHint(d)
         /\ Key(d.user, d.gameId) \in DOMAIN progress
         /\ progress[Key(d.user, d.gameId)].completed )
       => ( /\ reply' = "Game already completed"
            /\ progress' = progress )]_vars

\* C5 witness: a hint was refused on a completed row that has a hint used.
C5_Witness ==
  /\ reply = "Game already completed"
  /\ \E k \in DOMAIN progress :
       progress[k].completed /\ progress[k].hints_used > 0

\* C6: each DELETE of a reset removes from its table every row of the
\* user (of the one pair, if a challenge is given) and no other row;
\* success is reported after the three of them and the COMMIT only; and
\* when the reset reports failure the three tables are as BEGIN found them.
C6_Target(r, u, g) == u = r.user /\ (r.gameId = NullGame \/ g = r.gameId)

C6_After(pc) ==
  IF pc = "confirm" THEN "announcements"
  ELSE IF pc = "announcements" THEN "rewards"
  ELSE IF pc = "rewards" THEN "progress"
  ELSE "commit"

C6_ResetDeletesOrNothing ==
  [][/\ \A r2 \in resets' \ resets :
          \/ r2.pc = "confirm"
          \/ \E r \in resets \ resets' :
               r.pc # "commit" /\ r2 = [r EXCEPT !.pc = C6_After(r.pc)]
     /\ \A r \in resets \ resets' :
          r.pc # "confirm" =>
            IF r.pc # "commit" /\ [r EXCEPT !.pc = C6_After(r.pc)] \in resets'
            THEN /\ r.pc = "announcements" =>
                      announcements' =
                        {a \in announcements :
                           ~C6_Target(r, a.user_id, a.game_id)}
                 /\ r.pc = "rewards" =>
                      rewards' =
                        {w \in rewards : ~C6_Target(r, w.user_id, w.game_id)}
                 /\ r.pc = "progress" =>
                      /\ DOMAIN progress' =
                           {k \in DOMAIN progress : ~C6_Target(r, k[1], k[2])}
                      /\ \A k \in DOMAIN progress' : progress'[k] = progress[k]
            ELSE \/ /\ reply' = "reset-ok"
                    /\ r.pc = "commit"
                    /\ progress' = progress
                    /\ rewards' = rewards
                    /\ announcements' = announcements
                 \/ /\ reply' = "reset-failed"
                    /\ [ progress |-> progress', rewards |-> rewards',
                         announcements |-> announcements' ] \in txn]_vars

\* C6 witness: a reset has failed and the user's rows are in all three
\* tables.
C6_Witness ==
  /\ reply = "reset-failed"
  /\ txn = {}
  /\ \E k \in DOMAIN progress : k[1] = Player
  /\ \E w \in rewards : w.user_id = Player
  /\ \E a \in announcements : a.user_id = Player

\* C7: saving an edit of a challenge that was approved when the form was
\* opened leaves it not approved and pending review if the form differs
\* from what was shown in answer, difficulty or hints, and approved if it
\* differs in name or description only.
C7_CoreChanged(snap, f) ==
  \/ Trim(f.answer) # snap.answer
  \/ f.diff # snap.difficulty
  \/ parseHints(Trim(f.hints)) # snap.hints

C7_EditResetsApproval ==
  [][\A d \in dialogs, f \in EditForms, a \in BOOLEAN :
       ( /\ d.kind = "edit"
         /\ d.snap.approved
         /\ reply' = "ok"
         /\ d \notin dialogs'
         /\ submitEdit(d, f.name, f.desc, f.answer, f.diff, f.hints, a) )
       => ( /\ d.gameId \in DOMAIN files'
            /\ IF C7_CoreChanged(d.snap, f)
               THEN /\ ~files'[d.gameId].approved
                    /\ files'[d.gameId].pending_review
                    /\ lifecycleState(files'[d.gameId]) # "approved"
               ELSE files'[d.gameId].approved )]_vars

\* C7 witness: an approved challenge has been edited in a core field and
\* saved.
C7_Witness ==
  \E g \in DOMAIN files : files[g].pending_review /\ ~files[g].approved

\* C8: a create never overwrites or alters a challenge that is stored.
C8_IsCreate ==
  \E u \in Users, f \in CreateForms \cup {OtherNameForm}, a \in BOOLEAN :
    handleGameCreate(u, f.name, f.desc, f.answer, f.diff, combinedField(f), a)

C8_CreateKeepsStored ==
  [][C8_IsCreate =>
       \A g \in DOMAIN files :
         g \in DOMAIN files' /\ files'[g] = files[g]]_vars

\* C9: after a confirmation or a submitted form that changes the challenge
\* store (approve, reject, disable, re-enable, edit, reward configuration,
\* remove), the in-memory index holds a maker-created challenge exactly
\* when its stored record is approved, not disabled and not rejected, with
\* the stored answer, hints, difficulty and reward payload.
C9_IndexMatchesStore ==
  /\ \A g \in DOMAIN files :
       g \in DOMAIN cfgGames <=> g \in approvedGames(files)
  /\ \A g \in (DOMAIN cfgGames) \ (DOMAIN ManualGames) :
       /\ g \in DOMAIN files
       /\ cfgGames[g] = cleanGameData(files[g])

C9_IndexFollowsMutation ==
  [][(files' # files /\ Closing # {}) => C9_IndexMatchesStore']_vars

\* C10: an edit or a removal asked for by a user who is neither the owner
\* nor an admin is refused; store, index and dialogs stay as they are.
C10_Refused ==
  [][\A u \in Users, g \in DOMAIN files :
       ( /\ handleGameEdit(u, g) \/ handleGameRemove(u, g)
         /\ u # files[g].owner_id
         /\ u \notin Admins )
       => ( /\ reply' \in {"denied", "not-owner"}
            /\ files' = files
            /\ gamesYaml' = gamesYaml
            /\ cfgGames' = cfgGames
            /\ dialogs' = dialogs )]_vars

\* C10 witness: a maker who does not own the stored challenge has asked
\* to edit or remove it.
C10_Witness == reply = "not-owner" /\ DOMAIN files # {}

\* C11: an approve, reject or disable command by a user outside the admin
\* list, and a click on a confirmation button by anyone but the user who
\* ran the command, changes no challenge record, no index entry and opens
\* or ends no dialog; every approve, reject, disable or re-enable that
\* changes the store belongs to a command run by an admin.
C11_Untouched ==
  /\ files' = files
  /\ gamesYaml' = gamesYaml
  /\ cfgGames' = cfgGames
  /\ dialogs' = dialogs

C11_AdminOnly ==
  [][/\ \A u \in Users \ Admins, g \in DOMAIN files, r \in RejectReasons :
          ( \/ handleApproveGame(u, g)
            \/ handleRejectGame(u, g, r)
            \/ handleDisableGame(u, g) ) => C11_Untouched
     /\ \A d \in dialogs : \A i \in Users \ {d.user} :
          ( \/ confirmApprove(d, i)
            \/ confirmReject(d, i)
            \/ enableGame(d, i) ) => C11_Untouched
     /\ \A d \in Closing :
          ( /\ d.kind \in {"approve", "reject", "disable", "enable"}
            /\ files' # files ) => d.user \in Admins]_vars

\* C11 witness: someone else has clicked on an admin's approval
\* confirmation, which is still open.
C11_Witness ==
  /\ reply = "not-for-you"
  /\ \E d \in dialogs : d.kind = "approve"

\* C12: when the admin confirms the approval of a pending challenge whose
\* reward_text is set, the stored record is approved, carries the admin as
\* approver and today as approval date, and the challenge is in the index
\* config.games that the player commands read.
C12_ApproveSucceeds ==
  [][\A d \in dialogs :
       ( /\ d.kind = "approve"
         /\ d.gameId \in DOMAIN files
         /\ lifecycleState(files[d.gameId]) = "pending"
         /\ files[d.gameId].reward_type = "text"
         /\ Truthy(files[d.gameId].reward_text)
         /\ confirmApprove(d, d.user) )
       => ( /\ d.gameId \in DOMAIN files'
            /\ files'[d.gameId].approved
            /\ lifecycleState(files'[d.gameId]) = "approved"
            /\ files'[d.gameId].approver_id = d.user
            /\ files'[d.gameId].approval_date = DateOf(now)
            /\ d.gameId \in DOMAIN cfgGames' )]_vars

\* C13: the points stored by a completion are
\* ceil(max(S - sum over k < hints_used of (B + k*I), ceil(S/10)) * m(d))
\* with m = 1.0, 1.2, 1.5, 2.0 for difficulty 1..4; with S = 100, B = 10,
\* I = 5 that is 75 for 2 hints at difficulty 1, 150 for no hint at
\* difficulty 3 and 12 for 20 hints at difficulty 2.
C13_Ceil10(x) == (x + 9) \div 10

C13_Tenths(d) == IF d = 1 THEN 10 ELSE IF d = 2 THEN 12 ELSE IF d = 3 THEN 15 ELSE 20

C13_Expected(h, d) ==
  LET sum == h * HintBasePenalty + HintPenaltyIncrease * ((h * (h - 1)) \div 2)
      floor == C13_Ceil10(StartingPoints)
      raw == IF StartingPoints - sum > floor THEN StartingPoints - sum ELSE floor
  IN C13_Ceil10(raw * C13_Tenths(d))

C14_Floor(d) == C13_Ceil10(C13_Ceil10(StartingPoints) * C13_Tenths(d))

C14_Step(h, game) ==
  LET before == calculatePoints(h, game)
      after == calculatePoints(h + 1, game)
  IN \/ after < before
     \/ before = C14_Floor(game.difficulty) /\ after = before

C14_PointsDecrease ==
  [][/\ \A d \in hintDialogs :
          (confirmHint(d) /\ reply' = "hint")
          => LET k == Key(d.user, d.gameId)
                 h == progress[k].hints_used
                 game == cfgGames[d.gameId]
             IN /\ progress'[k].hints_used = h + 1
                /\ calculatePoints(h + 1, game) \in Nat
                /\ calculatePoints(h + 1, game) >= C14_Floor(game.difficulty)
                /\ calculatePoints(h + 1, [game EXCEPT !.difficulty = 1])
                     >= C13_Ceil10(StartingPoints)
                /\ C14_Step(h, game)
     /\ \A k \in DOMAIN progress' :
          progress'[k].completed =>
            /\ progress'[k].points_earned \in Nat
            /\ progress'[k].points_earned >= C14_Floor(cfgGames[k[2]].difficulty)]_vars

\* C14 witness: a hint was given that no longer lowers the points.
C14_Witness ==
  /\ reply = "hint"
  /\ \E k \in DOMAIN progress :
       /\ progress[k].hints_used > 0
       /\ ~progress[k].completed
       /\ calculatePoints(progress[k].hints_used, cfgGames[k[2]])
            = calculatePoints(progress[k].hints_used - 1, cfgGames[k[2]])

\* C15: the progress table never holds two rows of one (user, challenge)
\* pair, also when two first accesses run at once; and a getProgress that
\* starts after another one for the same fresh pair has returned gives
\* the same zeroed values (hints_used 0, attempts 0, not completed), with
\* exactly one row of the pair in the table.
C15_Zeroed(c) ==
  c.ok /\ c.hints_used = 0 /\ c.attempts = 0 /\ ~c.completed

C15_OneRowPerPair ==
  /\ \A i \in DOMAIN progress, j \in DOMAIN progress :
       ( /\ progress[i].user_id = progress[j].user_id
         /\ progress[i].game_id = progress[j].game_id ) => i = j
  /\ \A c \in calls :
       (c.pc = "returned" /\ c.ok) => C15_Zeroed(c)
  /\ \A c \in calls :
       (c.pc = "returned" /\ c.again)
       => ( /\ C15_Zeroed(c)
            /\ Cardinality(selectProgress(progress, c.user_id, c.game_id)) = 1 )

\* C15 witness: two first accesses of one pair ran at once, one of them
\* losing its INSERT, and a later access has returned.
C15_Witness ==
  \E c1 \in calls, c2 \in calls, c3 \in calls :
    /\ c1.pc = "returned" /\ c2.pc = "returned" /\ c3.pc = "returned"
    /\ c1.game_id = c2.game_id /\ c1.user_id = c2.user_id
    /\ c3.game_id = c1.game_id /\ c3.user_id = c1.user_id
    /\ c1.ok /\ ~c1.again
    /\ ~c2.ok /\ ~c2.again
    /\ c3.ok /\ c3.again

\* C16: no stored challenge carries the rejected flag together with the
\* disabled flag or with the approved flag, nor pending_review together
\* with approved.
C16_OneLifecycleState ==
  \A g \in DOMAIN files :
    /\ ~(files[g].rejected /\ files[g].disabled)
    /\ ~(files[g].rejected /\ files[g].approved)
    /\ ~(files[g].pending_review /\ files[g].approved)

\* C17: disabling an approved challenge keeps its approval date and
\* approver in the record, and re-enabling it makes it approved again
\* with that date and approver and puts it in the index config.games.
C17_SameApproval(g) ==
  /\ g \in DOMAIN files'
  /\ files'[g].approved
  /\ files'[g].approval_date = files[g].approval_date
  /\ files'[g].approver_id = files[g].approver_id

C17_DisableEnableRestores ==
  [][/\ \A d \in dialogs, r \in DisableReasons :
          ( /\ d.kind = "disable"
            /\ d.gameId \in DOMAIN files
            /\ lifecycleState(files[d.gameId]) = "approved"
            /\ submitDisable(d, r) )
          => ( /\ C17_SameApproval(d.gameId)
               /\ lifecycleState(files'[d.gameId]) = "disabled" )
     /\ \A d \in dialogs :
          ( /\ d.kind = "enable"
            /\ d.gameId \in DOMAIN files
            /\ files[d.gameId].approved
            /\ lifecycleState(files[d.gameId]) = "disabled"
            /\ enableGame(d, d.user) )
          => ( /\ C17_SameApproval(d.gameId)
               /\ lifecycleState(files'[d.gameId]) = "approved"
               /\ d.gameId \in DOMAIN cfgGames' )]_vars

\* C18: a reject or a disable whose reason is empty, or empty once trimmed,
\* fails (the reply is not the success reply) and leaves the stored challenge
\* as it was.
C18_BlankReasonFails ==
  [][/\ \A d \in dialogs, r \in DisableReasons :
          (Trim(r) = <<>> /\ submitDisable(d, r))
          => (files' = files /\ reply' # "ok")
     /\ \A d \in dialogs :
          (d.kind = "reject" /\ Trim(d.arg) = <<>> /\ confirmReject(d, d.user))
          => (files' = files /\ reply' # "ok")]_vars

\* C19: every committed lifecycle transition (approve, reject, disable,
\* re-enable, and the edit that sends an approved challenge back to review)
\* is in the stored record, is followed by a rebuild of the index from the
\* stored records, and sends a notification to the creator or to the admins.
C19_Committed(d) ==
  /\ d.gameId \in DOMAIN files
  /\ d.gameId \in DOMAIN files'
  /\ files'[d.gameId] # files[d.gameId]
  /\ CASE d.kind = "approve" -> files'[d.gameId].approved
       [] d.kind = "reject" -> files'[d.gameId].rejected
       [] d.kind = "disable" -> files'[d.gameId].disabled
       [] d.kind = "enable" -> files[d.gameId].disabled /\ ~files'[d.gameId].disabled
       [] d.kind = "edit" -> /\ files[d.gameId].approved
                             /\ ~files'[d.gameId].approved
                             /\ files'[d.gameId].pending_review
       [] OTHER -> FALSE

C19_Rebuilt ==
  \E st0 \in {St, modalSubmitTail(St)} :
    gamesYaml' = mergedConfig([st0 EXCEPT !.files = files'])

C19_TransitionEffects ==
  [][\A d \in Closing :
       C19_Committed(d) => (C19_Rebuilt /\ notified' \in {"creator", "admins"})]_vars

\* C20: a successful create stores the challenge as pending (not approved,
\* not rejected, not disabled) and the challenge is not in the index the
\* player commands read; a create whose name, description or answer is
\* blank fails and stores nothing.
C20_Blank(f) == Trim(f.name) = <<>> \/ Trim(f.desc) = <<>> \/ Trim(f.answer) = <<>>

C20_CreateStoresPending ==
  [][\A u \in Users, f \in AllCreateForms, a \in BOOLEAN :
       handleGameCreate(u, f.name, f.desc, f.answer, f.diff, combinedField(f), a)
       => IF C20_Blank(f)
          THEN files' = files /\ reply' # "ok"
          ELSE reply' = "ok" =>
                 LET gameId == generateGameId(Trim(f.name), u, now)
                 IN /\ gameId \in DOMAIN files'
                    /\ lifecycleState(files'[gameId]) = "pending"
                    /\ ~files'[gameId].pending_review
                    /\ gameId \notin DOMAIN cfgGames']_vars

\* C21: reading a challenge right after creating it returns the name,
\* description, answer, difficulty, reward type and hints submitted in the
\* create form (text fields compared without their surrounding whitespace).
C21_TypeName(t) ==
  IF t = "text" THEN <<"t", "e", "x", "t">> ELSE <<"b", "a", "d", "g", "r">>

C21_CreateThenGet ==
  [][\A u \in Users, f \in AllCreateForms, a \in BOOLEAN :
       ( /\ reply' = "ok"
         /\ files' # files
         /\ handleGameCreate(u, f.name, f.desc, f.answer, f.diff,
                             combinedField(f), a) )
       => LET got == readGame(St', generateGameId(Trim(f.name), u, now))
          IN /\ got.name = Trim(f.name)
             /\ got.description = Trim(f.desc)
             /\ got.answer = Trim(f.answer)
             /\ got.difficulty = f.diff
             /\ C21_TypeName(got.reward_type) = ToLowerCase(Trim(f.line))
             /\ got.hints = nonBlankLines(f.hints)]_vars

\* C22: whenever issueReward fails (unknown reward type, badge reward for a
\* user without email, missing badge class id, empty reward text, failed
\* credential-API call) the error reaches the caller and no reward row is
\* written for that user and challenge.
C22_Fails(user, game, apiOk) ==
  \/ game.reward_type \notin {"badgr", "text"}
  \/ /\ game.reward_type = "badgr"
     /\ ~user.email \/ ~Truthy(game.badge_class_id) \/ ~apiOk
  \/ game.reward_type = "text" /\ ~Truthy(game.reward_text)

C22_FailureWritesNothing ==
  [][\A user \in RewardUsers, game \in RewardGames,
        gameId \in DOMAIN ManualGames, apiOk \in BOOLEAN :
       ( /\ C22_Fails(user, game, apiOk)
         /\ rewards' = rewardService(rewards, user, game, gameId, apiOk).rewards
         /\ reply' = rewardService(rewards, user, game, gameId, apiOk).error )
       => ( /\ reply' \in {"unknown-type", "no-email", "no-badge-class",
                           "no-text", "api-error"}
            /\ rewards' = rewards )]_vars

C22_Witness ==
  /\ reply = "api-error"
  /\ \E r \in rewards : r.reward_type = "badgr"
  /\ \E r \in rewards : r.reward_type = "text"

\* C23: a failure of the success announcement, of the approval announcement
\* or of the creator's message neither undoes nor prevents the state change
\* it reports: the progress row is completed with its points and the reward
\* is issued as usual, and the challenge record is approved.
C23_NoticeFailureKeepsChange ==
  [][/\ \A f \in forms, apiOk \in BOOLEAN :
          (reply' = "correct" /\ processSubmission(f, apiOk, FALSE))
          => ( /\ progress'[Key(f.user, f.gameId)].completed
               /\ progress'[Key(f.user, f.gameId)].points_earned =
                    calculatePoints(f.hintsUsed, f.game)
               /\ rewards' = issueReward(rewards, f.user, f.gameId, f.game, apiOk)
               /\ announcements' = announcements )
     /\ \A d \in dialogs, announced \in BOOLEAN, dmSent \in BOOLEAN :
          ( /\ d.kind = "approve"
            /\ ~(announced /\ dmSent)
            /\ approveCommit(d, announced, dmSent) )
          => ( /\ reply' = "ok"
               /\ d.gameId \in DOMAIN files'
               /\ files'[d.gameId].approved
               /\ files'[d.gameId].approver_id = d.user
               /\ gamesYaml' = mergedConfig([St EXCEPT !.files = files']) )]_vars

C23_Witness ==
  /\ announcements = {}
  /\ \E k \in DOMAIN progress : progress[k].completed
  /\ \E g \in DOMAIN files : files[g].approved

\* C24: when a confirmation or a form (hint, submit, approve, reject,
\* disable, reset, manage-hints, edit, remove) is cancelled or times out,
\* every stored progress row, reward row and challenge record is as it was
\* before the command was issued: neither the command that opens the
\* dialog nor its cancellation changes the store.
C24_Opens ==
  \/ \E d \in dialogs' \ dialogs :
       d.kind \in {"approve", "reject", "disable", "enable", "edit", "remove"}
  \/ \E f \in forms' \ forms : f.answer = Absent
  \/ hintDialogs' \ hintDialogs # {}
  \/ \E r \in resets' \ resets : r.pc = "confirm"
  \/ manages' \ manages # {}

C24_Cancels ==
  \/ \E d \in dialogs : Cancel(d)
  \/ \E f \in forms : cancelForm(f)
  \/ \E d \in hintDialogs : cancelHint(d)
  \/ \E r \in resets : cancelReset(r)
  \/ \E m \in manages : cancelManageHints(m)
  \/ Tick

C24_TimeoutLeavesStore ==
  [][(C24_Opens \/ C24_Cancels)
       => (progress' = progress /\ rewards' = rewards /\ files' = files)]_vars

\* C24, amended: the rows and records stored before the command are
\* unchanged by the command and by its cancellation or timeout; the
\* command may add the zeroed progress row of a first access (no hint, no
\* attempt, not completed, no points), and the cancellation adds nothing.
C24_Zeroed(row) ==
  /\ ~row.completed
  /\ row.hints_used = 0
  /\ row.attempts = 0
  /\ row.points_earned = NoPoints

C24_TimeoutKeepsRows ==
  [][/\ C24_Opens
          => ( /\ rewards' = rewards
               /\ files' = files
               /\ \A k \in DOMAIN progress :
                    k \in DOMAIN progress' /\ progress'[k] = progress[k]
               /\ \A k \in (DOMAIN progress') \ (DOMAIN progress) :
                    C24_Zeroed(progress'[k]) )
     /\ C24_Cancels
          => (progress' = progress /\ rewards' = rewards /\ files' = files)]_vars

C24_Witness ==
  /\ forms = {}
  /\ hintDialogs = {}
  /\ manages = {}
  /\ resets = {}
  /\ dialogs = {}
  /\ now = 0
  /\ reply = "ok"
  /\ Key(Player, ManualId) \in DOMAIN progress
  /\ C24_Zeroed(progress[Key(Player, ManualId)])
  /\ \E g \in DOMAIN files : files[g].approved

\* C25: every answer submission that reaches evaluation adds exactly one to
\* the attempts of the row, whether the answer is correct or not: each
\* evaluation adds one, on a correct answer too (the completed row carries
\* the attempt), and one submission is evaluated once for a row.
C25_Evaluated(g) == {f \in forms' \ forms : f.gameId = g /\ f.answer # Absent}

C25_OneAttemptPerSubmission ==
  [][/\ \A f \in forms, apiOk \in BOOLEAN, sent \in BOOLEAN :
          (Key(f.user, f.gameId) \in DOMAIN progress
             /\ processSubmission(f, apiOk, sent))
          => ( /\ reply' \in {"correct", "incorrect"}
               /\ progress'[Key(f.user, f.gameId)].attempts =
                    progress[Key(f.user, f.gameId)].attempts + 1 )
     /\ \A g \in DOMAIN cfgGames, a \in AnswerInputs :
          modalSubmit(g, a)
          => \A u \in Users :
               Cardinality({f \in C25_Evaluated(g) : f.user = u}) <= 1]_vars

\* C26: calculateNextHintCost(h) is hint_base_penalty + h *
\* hint_penalty_increase, which is what the cumulative deduction of
\* calculatePoints grows by from h to h + 1 hints; the /judge-hint command
\* that computes it and shows the confirmation changes no stored hints_used.
C26_Shown == hintDialogs' \ hintDialogs

C26_HintCostPreview ==
  [][\A u \in Users, g \in DOMAIN cfgGames :
       (C26_Shown # {} /\ handleHint(u, g))
       => LET h == progress'[Key(u, g)].hints_used
          IN /\ \A d \in C26_Shown :
                  /\ d.hintCost = HintBasePenalty + h * HintPenaltyIncrease
                  /\ d.hintCost = hintDeduction(h + 1) - hintDeduction(h)
             /\ \A k \in DOMAIN progress :
                  k \in DOMAIN progress'
                    /\ progress'[k].hints_used = progress[k].hints_used
             /\ \A k \in (DOMAIN progress') \ (DOMAIN progress) :
                  progress'[k].hints_used = 0]_vars

C26_Witness ==
  \E d \in hintDialogs :
    /\ d.hintCost = HintBasePenalty + (MaxHintsUsed - 1) * HintPenaltyIncrease
    /\ progress[Key(d.user, d.gameId)].hints_used = MaxHintsUsed - 1

\* the text without its whitespace characters
RECURSIVE C27_Strip(_)
C27_Strip(s) ==
  IF s = <<>> THEN <<>>
  ELSE IF IsSpace(Head(s)) THEN C27_Strip(Tail(s))
  ELSE <<Head(s)>> \o C27_Strip(Tail(s))

\* the words of the text, in lower case: its maximal runs of characters
\* that are not whitespace; word is the run being read
RECURSIVE C27_Words(_, _)
C27_Words(s, word) ==
  IF s = <<>> THEN (IF word = <<>> THEN <<>> ELSE <<word>>)
  ELSE IF IsSpace(Head(s))
       THEN (IF word = <<>> THEN <<>> ELSE <<word>>) \o C27_Words(Tail(s), <<>>)
       ELSE C27_Words(Tail(s), Append(word, LowerChar(Head(s))))

\* the answers typed into a form that waits for its evaluation
C27_Typed == {f \in forms : f.answer # Absent}

\* C27: isCorrectAnswer(submitted, stored) is true for any two non-empty
\* answers that differ only in letter case or only in whitespace, false when
\* they differ in any other character, and the same with its arguments
\* swapped.
C27_AnswerInsensitive ==
  \A f \in C27_Typed :
    LET a == f.answer
        b == f.game.answer
    IN /\ isCorrectAnswer(a, b) = isCorrectAnswer(b, a)
       /\ (a # <<>> /\ b # <<>>)
          => /\ ToLowerCase(a) = ToLowerCase(b) => isCorrectAnswer(a, b)
             /\ C27_Strip(a) = C27_Strip(b) => isCorrectAnswer(a, b)
             /\ C27_Strip(ToLowerCase(a)) # C27_Strip(ToLowerCase(b))
                  => ~isCorrectAnswer(a, b)

\* C27, as the code has it: isCorrectAnswer(submitted, stored) is true for
\* two non-empty answers exactly when they are made of the same words up to
\* letter case, whatever whitespace surrounds and separates the words, and
\* the same with its arguments swapped; an empty answer is never correct,
\* and the evaluation of the form completes the row exactly in that case.
C27_SameWords ==
  \A f \in C27_Typed :
    LET a == f.answer
        b == f.game.answer
    IN /\ isCorrectAnswer(a, b) = isCorrectAnswer(b, a)
       /\ (a # <<>> /\ b # <<>>)
          => (isCorrectAnswer(a, b) <=> C27_Words(a, <<>>) = C27_Words(b, <<>>))
       /\ a = <<>> => ~isCorrectAnswer(a, b)

C27_Witness ==
  \E f \in C27_Typed :
    /\ f.answer # f.game.answer
    /\ ToLowerCase(f.answer) # ToLowerCase(f.game.answer)
    /\ C27_Strip(f.answer) # C27_Strip(f.game.answer)
    /\ isCorrectAnswer(f.answer, f.game.answer)

\* the rows that the step completes
C28_Completed ==
  {k \in DOMAIN progress' :
     /\ progress'[k].completed
     /\ k \in DOMAIN progress => ~progress[k].completed}

\* C28: the points stored at completion are calculatePoints of the
\* hints_used the progress row holds at the moment of completion, also when
\* the player took hints between opening the answer form and submitting it.
C28_PointsOfStoredHints ==
  [][\A k \in C28_Completed :
       progress'[k].points_earned
         = calculatePoints(progress'[k].hints_used, cfgGames[k[2]])]_vars

\* C29: however a hint confirmation, an admin's manage-hints confirmation
\* and an answer submission for one (user, challenge) interleave, the row's
\* hints_used does not change once the row is completed.
C29_CompletedKeepsHints ==
  [][\A k \in DOMAIN progress :
       progress[k].completed
       => /\ k \in DOMAIN progress'
          /\ progress'[k].hints_used = progress[k].hints_used]_vars

\* what the owner's edit and reward configuration put into the record
C30_Content(g) ==
  <<g.answer, g.hints, g.reward_type, g.reward_text, g.badge_class_id>>

\* the step is the admin's confirmation of d, and it wrote the record
C30_Confirmed(d) ==
  /\ d.kind \in {"approve", "reject", "disable"}
  /\ d \notin dialogs'
  /\ d.gameId \in DOMAIN files
  /\ d.gameId \in DOMAIN files'
  /\ files'[d.gameId] # files[d.gameId]
  /\ CASE d.kind = "approve" -> files'[d.gameId].approved
       [] d.kind = "reject" -> files'[d.gameId].rejected
       [] OTHER -> files'[d.gameId].disabled

\* C30: challenge mutations are atomic read-modify-writes: what an owner's
\* edit or reward configuration committed between the opening of an approve,
\* reject or disable confirmation and its confirmation is still in the
\* stored record after the confirmation.
C30_NoLostUpdate ==
  [][\A d \in dialogs :
       C30_Confirmed(d)
       => C30_Content(files'[d.gameId]) = C30_Content(files[d.gameId])]_vars

\* the confirmations whose hint the step shows
C31_Shown ==
  {d \in hintDialogs' : d.pc = "shown" /\ d \notin hintDialogs}

\* C31: each successful updateHintUsage increments the stored hints_used by
\* exactly one and returns the stored value after its own increment, so two
\* hint confirmations for one (user, challenge), however they interleave,
\* return distinct counts and reveal distinct hints.
C31_HintCountReturned ==
  [][\A d \in C31_Shown :
       LET k == Key(d.user, d.gameId)
       IN /\ progress'[k].hints_used = progress[k].hints_used + 1
          /\ d.hintsUsed = progress'[k].hints_used
          /\ \A e \in hintDialogs' :
               (e.pc = "shown" /\ e.n # d.n /\ e.user = d.user
                  /\ e.gameId = d.gameId)
               => e.hintsUsed # d.hintsUsed]_vars

\* the answer forms that the step evaluates as correct, with a request to the
\* Badgr API
C32_BadgeRequested ==
  {f \in forms \ forms' :
     /\ f.answer # Absent
     /\ isCorrectAnswer(f.answer, f.game.answer)
     /\ callsBadgeApi([id |-> f.user, email |-> TRUE], f.game)}

\* C32: for each (user, challenge) the credential API is called to issue a
\* badge at most once between resets, however that user's answer submissions
\* interleave, two answer forms opened before either was submitted included:
\* no request is made for a pair whose row is already completed.
C32_OneBadgeRequest ==
  [][\A f \in C32_BadgeRequested :
       ~progress[Key(f.user, f.gameId)].completed]_vars

\* C33: a reward row for (user, challenge) exists only if a progress row for
\* that pair exists and is completed; no reward is issued when the
\* completion write did not take effect or when the row was reset while the
\* answer form was open.
C33_RewardOnlyForCompleted ==
  \A r \in rewards :
    /\ Key(r.user_id, r.game_id) \in DOMAIN progress
    /\ progress[Key(r.user_id, r.game_id)].completed

\* C34: hints_used of a progress row is never negative, and player hint
\* requests never raise it above the number of hints the challenge has, so
\* every hint shown to a player is an entry of the challenge's hint list,
\* also when two confirmations opened at the same count are both confirmed.
C34_HintsWithinList ==
  /\ \A k \in DOMAIN progress :
       /\ progress[k].hints_used >= 0
       /\ progress[k].hints_used <= Len(cfgGames[k[2]].hints)
  /\ \A d \in hintDialogs :
       d.pc = "shown" => d.hintsUsed \in 1..Len(d.game.hints)

\* C35: every challenge in the index the players' commands read has a usable
\* reward payload (a badge class id for a badge reward, a non-empty reward
\* text for a text reward), also after the owner changed the advanced
\* settings or the reward settings of an approved challenge.
C35_IndexedHasReward ==
  \A i \in DOMAIN cfgGames : rewardConfigured(cfgGames[i])

\* the step is issueReward(user, game) for gameId, and it returns a reward
C36_Succeeds(user, game, gameId, apiOk) ==
  /\ rewardService(rewards, user, game, gameId, apiOk).error = "none"
  /\ rewards' = rewardService(rewards, user, game, gameId, apiOk).rewards
  /\ reply' = "none"

\* C36: whenever issueReward returns successfully for (user, challenge), a
\* reward row for that pair with that reward type is stored.
C36_SuccessIsStored ==
  [][\A user \in RewardUsers, game \in RewardGames,
        gameId \in DOMAIN ManualGames, apiOk \in BOOLEAN :
       C36_Succeeds(user, game, gameId, apiOk)
       => \E r \in rewards' :
            /\ r.user_id = user.id
            /\ r.game_id = gameId
            /\ r.reward_type = game.reward_type]_vars

\* the step is the confirmation of d, and it wrote the record
C37_Written(d) ==
  /\ d \notin dialogs'
  /\ reply' = "ok"
  /\ d.gameId \in DOMAIN files'
  /\ d.gameId \in DOMAIN files => files'[d.gameId] # files[d.gameId]

C37_NoApprovalFields(g) ==
  ~g.approved /\ g.approval_date = NoDate /\ g.approver_id = NoUser

C37_NoRejectionFields(g) ==
  ~g.rejected /\ g.rejection_reason = Absent /\ g.rejection_date = NoDate

C37_NoDisableFields(g) ==
  ~g.disabled /\ g.disable_reason = Absent /\ g.disable_date = NoDate

\* C37: after a transition to rejected the stored record holds no approval
\* fields (approved flag, approval date, approver), and after a transition
\* to approved it holds no rejection fields (rejected flag, rejection reason
\* and date) and no disable fields.
C37_InactiveFieldsCleared ==
  [][\A d \in dialogs :
       /\ (d.kind = "reject" /\ C37_Written(d) /\ files'[d.gameId].rejected)
          => C37_NoApprovalFields(files'[d.gameId])
       /\ (d.kind = "approve" /\ C37_Written(d) /\ files'[d.gameId].approved)
          => /\ C37_NoRejectionFields(files'[d.gameId])
             /\ C37_NoDisableFields(files'[d.gameId])]_vars

\* the points are above the floor of calculatePoints after n hints
C38_AboveFloor(n) ==
  StartingPoints - hintDeduction(n) >= CeilDiv(StartingPoints, 10)

\* the confirmations that the step opens
C38_Opened == hintDialogs' \ hintDialogs

\* C38: the cost shown in the hint confirmation for the next hint equals
\* calculatePoints(h, game) - calculatePoints(h + 1, game), the reduction of
\* the points the user can still earn, for every difficulty in 1..4 and
\* every h below the challenge's hint count.
C38_CostIsReduction ==
  [][\A d \in C38_Opened :
       LET h == progress'[Key(d.user, d.gameId)].hints_used
       IN d.hintCost = calculatePoints(h, d.game)
                         - calculatePoints(h + 1, d.game)]_vars

\* C38, as the code has it: the cost shown is the raw penalty of the next
\* hint, which is the reduction of the points the user can still earn when
\* the difficulty is 1 and the points stay above the floor; the confirmation
\* also shows calculatePoints(h + 1, game), the points still possible after
\* the hint, for every difficulty and every h below the hint count.
C38_CostIsRawPenalty ==
  [][\A d \in C38_Opened :
       LET h == progress'[Key(d.user, d.gameId)].hints_used
       IN /\ h < Len(d.game.hints)
          /\ d.maxPointsPossibleAfterHint = calculatePoints(h + 1, d.game)
          /\ (d.game.difficulty = 1 /\ C38_AboveFloor(h + 1))
             => d.hintCost = calculatePoints(h, d.game)
                               - calculatePoints(h + 1, d.game)]_vars

C38_Witness ==
  \E d \in hintDialogs :
    /\ d.game.difficulty = 1
    /\ progress[Key(d.user, d.gameId)].hints_used = 2
    /\ C38_AboveFloor(3)
    /\ d.hintCost = calculatePoints(2, d.game) - calculatePoints(3, d.game)
    /\ d.hintCost > HintBasePenalty

\* the rows of the three tables that belong to other users than u
C39_RowsOfOthers(p, rw, an, u) ==
  [ progress |-> [k \in {j \in DOMAIN p : j[1] # u} |-> p[k]],
    rewards |-> {r \in rw : r.user_id # u},
    announcements |-> {a \in an : a.user_id # u} ]

\* C39: a progress, reward or announcement write of another handler that
\* reported success is never undone by a reset running at the same time and
\* rolling back on the shared database connection, and a reset of one user
\* leaves the rows of every other user as they are.
C39_ResetKeepsOthers ==
  [][\A r \in resets \ resets' :
       r.pc # "confirm"
       => C39_RowsOfOthers(progress', rewards', announcements', r.user)
            = C39_RowsOfOthers(progress, rewards, announcements, r.user)]_vars

====
